---- MODULE Spec2Model ----
(***************************************************************************)
(* Model of the MATLAB runtime installer (package matlab_runtime_installer):*)
(* the install / uninstall orchestration of impl.py and the helpers of      *)
(* utils.py it drives (askuser, guess_arch, matlab_release, guess_release,  *)
(* guess_installer, the INSTALLERS catalog).                                *)
(*                                                                          *)
(* Python strings are modelled as sequences of one-character strings, so    *)
(* that slicing, splitting, parsing and formatting are computed and not     *)
(* assumed.  A filesystem path is a sequence of such strings (its           *)
(* components); the filesystem is the set of paths that exist.              *)
(***************************************************************************)
EXTENDS Integers, Sequences, FiniteSets, TLC

\* ------------------------------------------------------------------------
\*  Bounds of the model
\* ------------------------------------------------------------------------

\* Longest list of versions passed to install / uninstall.
MaxVersions == 2

\* The last year (of the century) whose releases are converted
MaxYear == 30

\* The greatest value of retry that url_download is called with
MaxRetry == 5

\* The greatest number of members of an archive that is extracted
MaxMembers == 3

\* ------------------------------------------------------------------------
\*  Python string primitives
\* ------------------------------------------------------------------------

\* s[:n]
Take(s, n) == SubSeq(s, 1, IF n < Len(s) THEN n ELSE Len(s))

\* s.endswith(t)
EndsWith(s, t) ==
    /\ Len(t) <= Len(s)
    /\ SubSeq(s, Len(s) - Len(t) + 1, Len(s)) = t

UpperChars == <<"A", "B", "C", "D", "E", "F", "G", "H", "I", "J", "K", "L", "M",
                "N", "O", "P", "Q", "R", "S", "T", "U", "V", "W", "X", "Y", "Z">>
LowerChars == <<"a", "b", "c", "d", "e", "f", "g", "h", "i", "j", "k", "l", "m",
                "n", "o", "p", "q", "r", "s", "t", "u", "v", "w", "x", "y", "z">>

\* c.lower() for one character
Lower(c) == IF \E i \in 1..26 : UpperChars[i] = c
            THEN LowerChars[CHOOSE i \in 1..26 : UpperChars[i] = c]
            ELSE c

\* s.lower()
LowerStr(s) == [i \in 1..Len(s) |-> Lower(s[i])]

\* s.strip()
RECURSIVE strip(_)
strip(s) == IF Len(s) > 0 /\ Head(s) = " " THEN strip(Tail(s))
            ELSE IF Len(s) > 0 /\ s[Len(s)] = " "
            THEN strip(SubSeq(s, 1, Len(s) - 1))
            ELSE s

DigitChars == <<"0", "1", "2", "3", "4", "5", "6", "7", "8", "9">>

IsDigit(c) == \E i \in 1..10 : DigitChars[i] = c

DigitValue(c) == (CHOOSE i \in 1..10 : DigitChars[i] = c) - 1

\* int(s) succeeds iff s is a non-empty run of decimal digits
IsInt(s) == Len(s) > 0 /\ \A i \in 1..Len(s) : IsDigit(s[i])

RECURSIVE int(_)
int(s) == IF Len(s) = 0 THEN 0
          ELSE 10 * int(SubSeq(s, 1, Len(s) - 1)) + DigitValue(s[Len(s)])

\* str(n) for a natural number n
RECURSIVE str(_)
str(n) == IF n < 10 THEN <<DigitChars[n + 1]>>
          ELSE str(n \div 10) \o <<DigitChars[(n % 10) + 1]>>

\* s.split(".")
RECURSIVE split(_)
split(s) ==
    IF \A i \in 1..Len(s) : s[i] # "."
    THEN <<s>>
    ELSE LET k == CHOOSE i \in 1..Len(s) :
                      s[i] = "." /\ \A j \in 1..(i - 1) : s[j] # "."
         IN  <<SubSeq(s, 1, k - 1)>> \o split(SubSeq(s, k + 1, Len(s)))

\* The value of a call that may raise: exc is "" when it returned val.
Returned(v) == [exc |-> "", val |-> v]
Raised(e) == [exc |-> e, val |-> <<>>]

\* ------------------------------------------------------------------------
\*  Known versions (utils.py)
\* ------------------------------------------------------------------------

\* dict literals, as the ordered sequence of their (key, value) items
VERSION_TO_RELEASE ==
    << << <<"9",".","1","4">>, <<"R","2","0","2","3","a">> >>,
       << <<"9",".","1","3">>, <<"R","2","0","2","2","b">> >>,
       << <<"9",".","1","2">>, <<"R","2","0","2","2","a">> >>,
       << <<"9",".","1","1">>, <<"R","2","0","2","1","b">> >>,
       << <<"9",".","1","0">>, <<"R","2","0","2","1","a">> >>,
       << <<"9",".","9">>, <<"R","2","0","2","0","b">> >>,
       << <<"9",".","8">>, <<"R","2","0","2","0","a">> >>,
       << <<"9",".","7">>, <<"R","2","0","1","9","b">> >>,
       << <<"9",".","6">>, <<"R","2","0","1","9","a">> >>,
       << <<"9",".","5">>, <<"R","2","0","1","8","b">> >>,
       << <<"9",".","4">>, <<"R","2","0","1","8","a">> >>,
       << <<"9",".","3">>, <<"R","2","0","1","7","b">> >>,
       << <<"9",".","2">>, <<"R","2","0","1","7","a">> >>,
       << <<"9",".","1">>, <<"R","2","0","1","6","b">> >>,
       << <<"9",".","0",".","1">>, <<"R","2","0","1","6","a">> >>,
       << <<"9",".","0">>, <<"R","2","0","1","5","b">> >>,
       << <<"8",".","5",".","1">>, <<"R","2","0","1","5","a","S","P","1">> >>,
       << <<"8",".","5">>, <<"R","2","0","1","5","a">> >>,
       << <<"8",".","4">>, <<"R","2","0","1","4","b">> >>,
       << <<"8",".","3">>, <<"R","2","0","1","4","a">> >>,
       << <<"8",".","2">>, <<"R","2","0","1","3","b">> >>,
       << <<"8",".","1">>, <<"R","2","0","1","3","a">> >>,
       << <<"8",".","0">>, <<"R","2","0","1","2","b">> >>,
       << <<"7",".","1","7">>, <<"R","2","0","1","2","a">> >> >>

RELEASE_TO_UPDATE ==
    << << <<"R","2","0","2","4","b">>, <<"5">> >>,
       << <<"R","2","0","2","4","a">>, <<"7">> >>,
       << <<"R","2","0","2","3","b">>, <<"1","0">> >>,
       << <<"R","2","0","2","3","a">>, <<"7">> >>,
       << <<"R","2","0","2","2","b">>, <<"1","0">> >>,
       << <<"R","2","0","2","2","a">>, <<"8">> >>,
       << <<"R","2","0","2","1","b">>, <<"7">> >>,
       << <<"R","2","0","2","1","a">>, <<"8">> >>,
       << <<"R","2","0","2","0","b">>, <<"8">> >>,
       << <<"R","2","0","2","0","a">>, <<"8">> >>,
       << <<"R","2","0","1","9","b">>, <<"9">> >>,
       << <<"R","2","0","1","9","a">>, <<"9">> >> >>

\* d[k] and "k in d" for a dict given by its items
DictHas(d, k) == \E i \in 1..Len(d) : d[i][1] = k
DictGet(d, k) == d[CHOOSE i \in 1..Len(d) : d[i][1] = k][2]
DictKeys(d) == {d[i][1] : i \in 1..Len(d)}

Letters == <<"a", "b", "c", "d", "e", "f", "g", "h", "i", "j", "k", "l", "m",
             "n", "o", "p", "q", "r", "s", "t", "u", "v", "w", "x", "y">>

\* matlab_release(version) for a str argument
matlab_release(version) ==
    IF Take(version, 1) = <<"R">> THEN Returned(version)
    ELSE IF DictHas(VERSION_TO_RELEASE, version)
    THEN Returned(DictGet(VERSION_TO_RELEASE, version))
    ELSE LET parts == split(version) IN
         IF Len(parts) < 2 THEN Raised("ValueError")
         ELSE LET year == parts[1]
                  release == parts[2]
              IN  IF ~IsInt(release) THEN Raised("ValueError")
                  ELSE IF int(release) + 1 >= Len(Letters)
                  THEN Raised("IndexError")
                  ELSE Returned(<<"R", "2", "0">> \o year
                                \o <<Letters[int(release) + 1 + 1]>>)

\* A conversion that does not look the release up in VERSION_TO_RELEASE
matlab_version_by_formula(version) ==
    IF Take(version, 1) # <<"R">> THEN Returned(version)
    ELSE IF Len(version) < 6 THEN Raised("IndexError")
    ELSE IF ~\E i \in 1..Len(Letters) : Letters[i] = version[6]
    THEN Raised("ValueError")
    ELSE Returned(SubSeq(version, 4, 5) \o <<".">>
                  \o str(CHOOSE i \in 1..Len(Letters) : Letters[i] = version[6]))

\* matlab_version(version) for a str argument: the key of the first item of
\* VERSION_TO_RELEASE whose key or value is the version; else the version
\* itself if it does not start with "R"; else version[3:5] + "." +
\* str(letters.index(version[5]) + 1).
matlab_version(version) ==
    LET hits == {i \in 1..Len(VERSION_TO_RELEASE) :
                    version \in {VERSION_TO_RELEASE[i][1], VERSION_TO_RELEASE[i][2]}}
    IN  IF hits # {}
        THEN Returned(VERSION_TO_RELEASE[CHOOSE i \in hits : \A j \in hits : i <= j][1])
        ELSE IF Take(version, 1) # <<"R">> THEN Returned(version)
        ELSE IF Len(version) < 6 THEN Raised("IndexError")
        ELSE IF ~\E i \in 1..Len(Letters) : Letters[i] = version[6]
        THEN Raised("ValueError")
        ELSE Returned(SubSeq(version, 4, 5) \o <<".">>
                      \o str(CHOOSE i \in 1..Len(Letters) : Letters[i] = version[6]))

\* ------------------------------------------------------------------------
\*  System / arch (utils.py)
\* ------------------------------------------------------------------------

\* What platform.system(), platform.processor(), sys.maxsize (as its width
\* in bits) and platform.platform() (as the parsed version) answer on a host.
Hosts ==
    { [system |-> "Windows", processor |-> "AMD64", bits |-> 64, macver |-> <<>>],
      [system |-> "Windows", processor |-> "x86", bits |-> 32, macver |-> <<>>],
      [system |-> "Linux", processor |-> "x86_64", bits |-> 64, macver |-> <<>>],
      [system |-> "Linux", processor |-> "i686", bits |-> 32, macver |-> <<>>],
      [system |-> "Darwin", processor |-> "arm", bits |-> 64, macver |-> <<15, 1>>],
      [system |-> "Darwin", processor |-> "i386", bits |-> 64, macver |-> <<10, 14>>],
      [system |-> "FreeBSD", processor |-> "amd64", bits |-> 64, macver |-> <<>>] }

\* guess_arch() of the installer package
guess_arch(h) ==
    IF h.system \notin {"Darwin", "Windows", "Linux"}
    THEN Raised("UnsupportedArchError")
    ELSE LET arch == IF h.system = "Darwin" THEN <<"m", "a", "c">>
                     ELSE IF h.system = "Windows" THEN <<"w", "i", "n">>
                     ELSE <<"g", "l", "n", "x">>
         IN  IF arch = <<"m", "a", "c">>
             THEN Returned(arch \o (IF h.processor = "arm" THEN <<"a">> ELSE <<"i">>)
                                \o <<"6", "4">>)
             ELSE IF h.bits > 32
             THEN Returned(arch \o <<"6", "4">>)
             ELSE Returned(arch \o <<"3", "2">>)

\* guess_arch() of the runtime package (matlab_runtime/utils.py), whose
\* values are the keys of the catalog
guess_arch_runtime(h) ==
    IF h.system \notin {"Darwin", "Windows", "Linux"}
    THEN Raised("UnsupportedArchError")
    ELSE IF h.system = "Darwin"
    THEN Returned(<<"m", "a", "c">>
                  \o (IF h.processor = "arm" THEN <<"a">> ELSE <<"i">>)
                  \o <<"6", "4">>)
    ELSE IF h.system = "Windows"
    THEN Returned(<<"w", "i", "n">>
                  \o (IF h.bits > 32 THEN <<"6", "4">> ELSE <<"3", "2">>))
    ELSE Returned(<<"g", "l", "n", "x">>
                  \o (IF h.bits > 32 THEN <<"a", "6", "4">> ELSE <<"8", "6">>))

\* Python's tuple comparison a > b
RECURSIVE TupleGT(_, _)
TupleGT(a, b) ==
    IF Len(a) = 0 THEN FALSE
    ELSE IF Len(b) = 0 THEN TRUE
    ELSE IF Head(a) # Head(b) THEN Head(a) > Head(b)
    ELSE TupleGT(Tail(a), Tail(b))

\* macos_version()
macos_version(h) == h.macver

\* ------------------------------------------------------------------------
\*  User input (utils.py)
\* ------------------------------------------------------------------------

\* What the user may type at a prompt: the value of input().
Answers == { <<>>, <<" ">>, <<"y">>, <<"Y", "e", "s">>, <<"n", "o">> }

\* askuser(question, default, auto_answer, raise_if_no), the user typing
\* `answer` when prompted: the value returned ("True" / "False") or the
\* exception raised.  Without auto_answer the typed string is replaced by a
\* bool ((not yesno) or False) before its first character is looked at, and
\* subscripting that bool raises TypeError unless the `or` short-circuits.
askuser(default, auto_answer, raise_if_no, answer) ==
    LET typed == IF default = "yes" THEN Len(strip(answer)) = 0 ELSE FALSE
    IN  IF ~auto_answer /\ ~typed THEN "TypeError"
        ELSE LET yesno == IF auto_answer THEN default = "yes" ELSE typed
             IN  IF ~yesno /\ raise_if_no THEN "UserInterruptionError"
                 ELSE IF yesno THEN "True" ELSE "False"

\* ------------------------------------------------------------------------
\*  Installers catalog (utils.py)
\* ------------------------------------------------------------------------

\* A URL template: the fields str.format() must be given.
TEMPLATE2 == [id |-> 2, fields |-> {"release", "update", "arch", "ext"}]
TEMPLATE1 == [id |-> 1, fields |-> {"release", "arch", "ext"}]

NoUrl == [template |-> 0, release |-> <<>>, update |-> <<>>, arch |-> <<>>,
          ext |-> <<>>]

\* template.format(**kw): the URL, as the values substituted in the template,
\* or KeyError when the template names a field that kw lacks.
format(template, kw) ==
    IF ~(template.fields \subseteq DOMAIN kw)
    THEN [exc |-> "KeyError", val |-> NoUrl]
    ELSE [exc |-> "",
          val |-> [template |-> template.id,
                   release |-> kw["release"],
                   update |-> IF "update" \in template.fields
                              THEN kw["update"] ELSE <<>>,
                   arch |-> kw["arch"],
                   ext |-> kw["ext"]]]

zip == <<"z", "i", "p">>
exe == <<"e", "x", "e">>

\* The releases f"R20{Y}{R}" for Y in range(lo, hi), R in ("a", "b")
YearReleases(lo, hi) ==
    {<<"R", "2", "0">> \o str(Y) \o <<R>> : Y \in lo..(hi - 1), R \in {"a", "b"}}

\* for R, U in RELEASE_TO_UPDATE.items(): INSTALLERS[A][R] = TEMPLATE2.format(...)
SeedModern(A, E, releases) ==
    [R \in releases |->
        format(TEMPLATE2, [release |-> R, update |-> DictGet(RELEASE_TO_UPDATE, R),
                           arch |-> A, ext |-> E]).val]

\* for Y ...: for R ...: INSTALLERS[A][R] = TEMPLATE1.format(...)
SeedLegacy(A, E, releases) ==
    [R \in releases |->
        format(TEMPLATE1, [release |-> R, arch |-> A, ext |-> E]).val]

win64 == <<"w", "i", "n", "6", "4">>
win32 == <<"w", "i", "n", "3", "2">>
glnxa64 == <<"g", "l", "n", "x", "a", "6", "4">>
glnx86 == <<"g", "l", "n", "x", "8", "6">>
maci64 == <<"m", "a", "c", "i", "6", "4">>
maca64 == <<"m", "a", "c", "a", "6", "4">>

R2012a == <<"R", "2", "0", "1", "2", "a">>
R2018b == <<"R", "2", "0", "1", "8", "b">>
R2022b == <<"R", "2", "0", "2", "2", "b">>
R2023b == <<"R", "2", "0", "2", "3", "b">>
R2024a == <<"R", "2", "0", "2", "4", "a">>
R2024b == <<"R", "2", "0", "2", "4", "b">>

\* INSTALLERS once utils.py has been imported.  The glnx86 entry is built
\* with the loop variable R left over from the loop before it (R2018b).
INSTALLERS_seed ==
    (win64 :> (SeedModern(win64, zip, DictKeys(RELEASE_TO_UPDATE))
               @@ SeedLegacy(win64, exe, YearReleases(12, 19))))
    @@ (win32 :> SeedLegacy(win32, exe, YearReleases(12, 16)))
    @@ (glnxa64 :> (SeedModern(glnxa64, zip, DictKeys(RELEASE_TO_UPDATE))
                    @@ SeedLegacy(glnxa64, zip, YearReleases(12, 19))))
    @@ (glnx86 :> (R2012a :> SeedLegacy(glnx86, zip, {R2018b})[R2018b]))
    @@ (maci64 :> (SeedModern(maci64, zip, DictKeys(RELEASE_TO_UPDATE))
                   @@ SeedLegacy(maci64, zip, YearReleases(12, 19))))
    @@ (maca64 :> SeedModern(maca64, zip, {R2023b, R2024a, R2024b}))

\* ------------------------------------------------------------------------
\*  Installer location (utils.py)
\* ------------------------------------------------------------------------

\* The network as a call finds it for one release: whether the server can be
\* reached (up) and the update counters whose modern-template URL exists.
Nets ==
    {[up |-> TRUE, updates |-> s] : s \in { {}, {0, 7} }}
    \cup {[up |-> FALSE, updates |-> {}]}

\* url_exists(url): the HEAD request answers with a status below 400; an
\* HTTPError is caught and answered False, an URLError (the server cannot be
\* reached) is not caught.
url_exists(u, net) ==
    IF ~net.up THEN Raised("URLError")
    ELSE Returned(IsInt(u.update) /\ int(u.update) \in net.updates)

\* Character and string order, as Python's sorted() uses it (ASCII)
Alphabet == <<" ", ".">> \o DigitChars \o UpperChars \o <<"_">> \o LowerChars

Ord(c) == IF \E i \in 1..Len(Alphabet) : Alphabet[i] = c
          THEN CHOOSE i \in 1..Len(Alphabet) : Alphabet[i] = c
          ELSE 0

RECURSIVE StrLess(_, _)
StrLess(a, b) ==
    IF Len(b) = 0 THEN FALSE
    ELSE IF Len(a) = 0 THEN TRUE
    ELSE IF Head(a) # Head(b) THEN Ord(Head(a)) < Ord(Head(b))
    ELSE StrLess(Tail(a), Tail(b))

\* next(iter(sorted(keys, reverse=True)))
MaxStr(keys) == CHOOSE k \in keys : \A j \in keys : j = k \/ StrLess(j, k)

\* The value of a lookup: the URL or release found (val) or the exception
\* raised (exc) with its message (msg), the existence checks issued, in
\* order, and the catalog afterwards.
Located(e, v, p, c) == [exc |-> e, val |-> v, probes |-> p, cat |-> c, msg |-> <<>>]

\* An existence check: the URL asked for and what url_exists(url) did
\* ("True", "False" or the exception raised)
Probe(u, net) ==
    [url |-> u,
     exists |-> IF url_exists(u, net).exc # "" THEN url_exists(u, net).exc
                ELSE IF url_exists(u, net).val THEN "True" ELSE "False"]

\* The loop of guess_installer over the update counters U, U-1, ..., 0.  The
\* template is formatted with the keywords update, version, arch and ext.
RECURSIVE guess_installer_probe(_, _, _, _, _)
guess_installer_probe(U, V, A, cat, net) ==
    IF U < 0 THEN Located("VersionNotFoundError", NoUrl, <<>>, cat)
    ELSE LET maybe_installer ==
                 format(TEMPLATE2, [update |-> str(U), version |-> V,
                                    arch |-> A, ext |-> zip])
         IN  IF maybe_installer.exc # ""
             THEN Located(maybe_installer.exc, NoUrl, <<>>, cat)
             ELSE IF url_exists(maybe_installer.val, net).exc # ""
             THEN Located(url_exists(maybe_installer.val, net).exc, NoUrl,
                          <<Probe(maybe_installer.val, net)>>, cat)
             ELSE IF url_exists(maybe_installer.val, net).val
             THEN Located("", maybe_installer.val,
                          <<Probe(maybe_installer.val, net)>>,
                          [cat EXCEPT ![A] = (V :> maybe_installer.val) @@ @])
             ELSE LET rest == guess_installer_probe(U - 1, V, A, cat, net)
                  IN  [rest EXCEPT !.probes = <<Probe(maybe_installer.val, net)>> \o @]

\* guess_installer(version, arch); arch = <<>> stands for arch=None
guess_installer(ver, a, h, cat, net) ==
    LET ga == IF a # <<>> THEN Returned(a) ELSE guess_arch(h)
        rel == matlab_release(ver)
    IN  IF ga.exc # "" THEN Located(ga.exc, NoUrl, <<>>, cat)
        ELSE IF rel.exc # "" THEN Located(rel.exc, NoUrl, <<>>, cat)
        ELSE IF ga.val \notin DOMAIN cat THEN Located("KeyError", NoUrl, <<>>, cat)
        ELSE IF rel.val \in DOMAIN cat[ga.val]
        THEN Located("", cat[ga.val][rel.val], <<>>, cat)
        ELSE guess_installer_probe(10, rel.val, ga.val, cat, net)

\* The calendar years datetime.now().year may answer.
Years == {2024, 2026}

latest == <<"l", "a", "t", "e", "s", "t">>
all == <<"a", "l", "l">>

\* The loop of guess_release over the letters ("b", "a"), given what
\* guess_installer answered for each: the first candidate that was located,
\* else the version unchanged; any other exception than VersionNotFoundError
\* propagates.
guess_release_loop(ver, year, b, a2) ==
    IF b.exc = ""
    THEN Located("", <<"R">> \o str(year) \o <<"b">>, b.probes, b.cat)
    ELSE IF b.exc # "VersionNotFoundError"
    THEN Located(b.exc, <<>>, b.probes, b.cat)
    ELSE IF a2.exc = ""
    THEN Located("", <<"R">> \o str(year) \o <<"a">>, b.probes \o a2.probes, a2.cat)
    ELSE IF a2.exc # "VersionNotFoundError"
    THEN Located(a2.exc, <<>>, b.probes \o a2.probes, a2.cat)
    ELSE Located("", ver, b.probes \o a2.probes, a2.cat)

\* matlab_release(version) as the last statement of guess_release
guess_release_return(ver, probes, cat) ==
    Located(matlab_release(ver).exc, matlab_release(ver).val, probes, cat)

\* The end of guess_release("latest", arch): when the loop left version
\* unchanged, the greatest release of the catalog for arch is taken.
guess_release_known(a, loop) ==
    IF loop.exc # "" THEN loop
    ELSE IF loop.val # latest
    THEN guess_release_return(loop.val, loop.probes, loop.cat)
    ELSE IF a \notin DOMAIN loop.cat
    THEN Located("KeyError", <<>>, loop.probes, loop.cat)
    ELSE IF DOMAIN loop.cat[a] = {}
    THEN Located("StopIteration", <<>>, loop.probes, loop.cat)
    ELSE guess_release_return(MaxStr(DOMAIN loop.cat[a]), loop.probes, loop.cat)

guess_release_second(ver, h, year, b, net) ==
    guess_release_loop(ver, year, b,
        guess_installer(<<"R">> \o str(year) \o <<"a">>, <<>>, h, b.cat, net))

\* guess_release(version, arch) in the year `year`; arch is never None here
guess_release(ver, a, h, year, cat, net) ==
    IF LowerStr(ver) # latest
    THEN guess_release_return(ver, <<>>, cat)
    ELSE guess_release_known(a,
             guess_release_second(ver, h, year,
                 guess_installer(<<"R">> \o str(year) \o <<"b">>, <<>>, h, cat, net),
                 net))

\* ------------------------------------------------------------------------
\*  Filesystem
\* ------------------------------------------------------------------------

\* op.join(path, name)
join(path, name) == Append(path, name)

\* path is p or lies below p
Under(p, path) == Len(p) <= Len(path) /\ SubSeq(path, 1, Len(p)) = p

\* shutil.rmtree(p)
rmtree(f, p) == {path \in f : ~Under(p, path)}

\* os.listdir(p)
listdir(f, p) == {path[Len(p) + 1] : path \in {q \in f : Under(p, q) /\ Len(q) > Len(p)}}

\* The install location passed as prefix, a directory next to it that is
\* not part of it, and the directory tempfile.TemporaryDirectory() creates.
PREFIX == << <<"MATLAB">>, <<"MATLAB_Runtime">> >>
OUTSIDE == << <<"MATLAB">>, <<"other">> >>
TMPDIR == << <<"tmp">>, <<"tmpdir">> >>

license == <<"matlabruntime_license_agreement.pdf">>

\* The license file of release R under the prefix
Sentinel(R) == join(join(PREFIX, R), license)

\* The releases whose directory may exist under the prefix.
InstalledReleases == {R2022b, R2024b}

\* The states a release directory can be in: absent, present without the
\* license file, present with it.
ReleaseTree(R, st) ==
    IF st = "absent" THEN {}
    ELSE IF st = "partial" THEN {join(PREFIX, R)}
    ELSE {join(PREFIX, R), join(join(PREFIX, R), license)}

PrefixTrees ==
    { {PREFIX} \cup UNION {ReleaseTree(R, st[R]) : R \in InstalledReleases} :
        st \in [InstalledReleases -> {"absent", "partial", "installed"}] }

Filesystems ==
    { {<< <<"MATLAB">> >>, OUTSIDE, << <<"tmp">> >>} \cup t : t \in PrefixTrees \cup {{}} }

\* ------------------------------------------------------------------------
\*  Installer location of the runtime package (matlab_runtime/utils.py)
\* ------------------------------------------------------------------------

\* A catalog that forgets the other releases of the arch
INSTALLERS_set_replacing(cat, A, R, url) == [cat EXCEPT ![A] = (R :> url)]

\* A catalog that does not keep what was found
INSTALLERS_set_nothing(cat, A, R, url) == cat

\* INSTALLERS[A][R] = maybe_installer
INSTALLERS_set(cat, A, R, url) == [cat EXCEPT ![A] = (R :> url) @@ @]

\* The loop of guess_installer over the update counters U, U-1, ..., 0:
\* the first URL that exists is cached and returned.
RECURSIVE guess_installer_runtime_probe(_, _, _, _, _)
guess_installer_runtime_probe(U, R, A, cat, net) ==
    IF U < 0 THEN Located("VersionNotFoundError", NoUrl, <<>>, cat)
    ELSE LET maybe_installer ==
                 format(TEMPLATE2, [update |-> str(U), release |-> R,
                                    arch |-> A, ext |-> zip])
         IN  IF maybe_installer.exc # ""
             THEN Located(maybe_installer.exc, NoUrl, <<>>, cat)
             ELSE IF url_exists(maybe_installer.val, net).exc # ""
             THEN Located(url_exists(maybe_installer.val, net).exc, NoUrl,
                          <<Probe(maybe_installer.val, net)>>, cat)
             ELSE IF url_exists(maybe_installer.val, net).val
             THEN Located("", maybe_installer.val,
                          <<Probe(maybe_installer.val, net)>>,
                          INSTALLERS_set(cat, A, R, maybe_installer.val))
             ELSE LET rest == guess_installer_runtime_probe(U - 1, R, A, cat, net)
                  IN  [rest EXCEPT !.probes = <<Probe(maybe_installer.val, net)>> \o @]

\* A lookup that probes whatever the catalog holds
guess_installer_runtime_always_probes(ga, rel, cat, net) ==
    IF ga.exc # "" THEN Located(ga.exc, NoUrl, <<>>, cat)
    ELSE IF rel.exc # "" THEN Located(rel.exc, NoUrl, <<>>, cat)
    ELSE IF ga.val \notin DOMAIN cat THEN Located("KeyError", NoUrl, <<>>, cat)
    ELSE guess_installer_runtime_probe(10, rel.val, ga.val, cat, net)

\* A lookup whose probes start at the update counter 9
guess_installer_runtime_from_9(ga, rel, cat, net) ==
    IF ga.exc # "" THEN Located(ga.exc, NoUrl, <<>>, cat)
    ELSE IF rel.exc # "" THEN Located(rel.exc, NoUrl, <<>>, cat)
    ELSE IF ga.val \notin DOMAIN cat THEN Located("KeyError", NoUrl, <<>>, cat)
    ELSE IF rel.val \in DOMAIN cat[ga.val]
    THEN Located("", cat[ga.val][rel.val], <<>>, cat)
    ELSE guess_installer_runtime_probe(9, rel.val, ga.val, cat, net)

\* guess_installer once arch (ga) and matlab_release(version) (rel) have
\* been evaluated: the catalog entry if there is one, else the probes.
guess_installer_runtime_lookup(ga, rel, cat, net) ==
    IF ga.exc # "" THEN Located(ga.exc, NoUrl, <<>>, cat)
    ELSE IF rel.exc # "" THEN Located(rel.exc, NoUrl, <<>>, cat)
    ELSE IF ga.val \notin DOMAIN cat THEN Located("KeyError", NoUrl, <<>>, cat)
    ELSE IF rel.val \in DOMAIN cat[ga.val]
    THEN Located("", cat[ga.val][rel.val], <<>>, cat)
    ELSE guess_installer_runtime_probe(10, rel.val, ga.val, cat, net)

\* error = VersionNotFoundError(f"No {version} installer found for
\* Win{arch}"), built before the version is normalised: the message of the
\* exception that the exhausted loop raises.
guess_installer_runtime_error(ver, ga, r) ==
    IF r.exc = "VersionNotFoundError"
    THEN [r EXCEPT !.msg = <<"No ">> \o ver \o <<" installer found for Win">>
                               \o ga.val]
    ELSE r

\* guess_installer(version, arch); arch = <<>> stands for arch=None
guess_installer_runtime(ver, a, h, cat, net) ==
    guess_installer_runtime_error(ver,
        IF a # <<>> THEN Returned(a) ELSE guess_arch_runtime(h),
        guess_installer_runtime_lookup(
            IF a # <<>> THEN Returned(a) ELSE guess_arch_runtime(h),
            matlab_release(ver), cat, net))

latest_installed == latest \o <<"_", "i", "n", "s", "t", "a", "l", "l", "e", "d">>

\* The names under prefix whose directory holds the license file
LicensedNames(f, prefix) ==
    {name \in listdir(f, prefix) : join(join(prefix, name), license) \in f}

\* The loop over ("b", "a") and what follows it, for version = ver:
\* guess_installer(maybe_version) is called without arch.
guess_release_runtime_second(ver, h, year, b, neta) ==
    guess_release_loop(ver, year, b,
        guess_installer_runtime(<<"R">> \o str(year) \o <<"a">>, <<>>, h, b.cat,
                                neta))

guess_release_runtime_latest(ver, arch, h, year, cat, netb, neta) ==
    guess_release_known(arch,
        guess_release_runtime_second(ver, h, year,
            guess_installer_runtime(<<"R">> \o str(year) \o <<"b">>, <<>>, h, cat,
                                    netb),
            neta))

\* guess_release once arch has a value
guess_release_runtime_arch(ver, arch, h, f, prefix, year, cat, netb, neta) ==
    IF LowerStr(ver) = latest_installed
    THEN IF prefix \in f /\ LicensedNames(f, prefix) # {}
         THEN guess_release_return(MaxStr(LicensedNames(f, prefix)), <<>>, cat)
         ELSE guess_release_runtime_latest(latest, arch, h, year, cat, netb, neta)
    ELSE IF LowerStr(ver) = latest
    THEN guess_release_runtime_latest(ver, arch, h, year, cat, netb, neta)
    ELSE guess_release_return(ver, <<>>, cat)

\* guess_release(version, arch, prefix) in the year `year`, the network
\* answering netb for the "b" release of the year and neta for the "a" one
guess_release_runtime(ver, a, h, f, prefix, year, cat, netb, neta) ==
    IF a = <<>> /\ guess_arch_runtime(h).exc # ""
    THEN Located(guess_arch_runtime(h).exc, <<>>, <<>>, cat)
    ELSE guess_release_runtime_arch(ver,
             IF a # <<>> THEN a ELSE guess_arch_runtime(h).val,
             h, f, prefix, year, cat, netb, neta)

\* ------------------------------------------------------------------------
\*  Downloads (utils.py)
\* ------------------------------------------------------------------------

\* op.basename(parse.urlparse(url).path)
basename(u) ==
    IF u.template = 2
    THEN <<"MATLAB_Runtime_">> \o u.release \o <<"_Update_">> \o u.update
             \o <<"_">> \o u.arch \o <<".">> \o u.ext
    ELSE <<"MCR_">> \o u.release \o <<"_">> \o u.arch \o <<"_installer", ".">>
             \o u.ext

\* What request.urlopen(req) may do: answer with a status below 400, or raise
\* (HTTPError for a status of 400 and above, URLError when the transfer fails).
Transfers == {"200", "HTTPError", "URLError"}

\* url_download(url, out), out being a directory: the path written or the
\* exception raised.
url_download(u, out, transfer) ==
    IF transfer # "200" THEN [exc |-> transfer, val |-> <<>>]
    ELSE [exc |-> "", val |-> join(out, basename(u))]

\* The members an installer archive may hold.
Archives == SUBSET { <<"install">>, <<"setup.exe">> }

\* ------------------------------------------------------------------------
\*  State
\* ------------------------------------------------------------------------

VARIABLES
    host,        \* the machine the process runs on
    fs,          \* the paths that exist
    INSTALLERS,  \* the catalog: arch -> release -> URL
    pc,          \* where the running call stands
    call,        \* the running call: fn, version, auto_answer
    queue,       \* the versions of a list that uninstall has yet to process
    caught,      \* the exceptions uninstall caught while looping over a list
    frame,       \* the locals of the running call
    log,         \* what the running call did, in order
    asked,       \* the questions the running call asked, with their answers
    fs0,         \* the paths that existed when the running call started
    ret,         \* the return code of the native installer (-1: not run)
    result,      \* how the call ended: "returned" or the exception raised
    last,        \* the lookup before the running call, if it returned a URL
    entries      \* the files and symlinks whose content is followed

vars == <<host, fs, INSTALLERS, pc, call, queue, caught, frame, log, asked,
          fs0, ret, result, last, entries>>

\* The version arguments: None, a str, or a list of str
NoVersion == [type |-> "NoneType", items |-> <<>>]
StrVersion(v) == [type |-> "str", items |-> <<v>>]
ListVersion(vs) == [type |-> "list", items |-> vs]

VersionStrings ==
    {R2024b, <<"9", ".", "1", "3">>, <<"9", ".", "5">>,
     <<"R", "2", "0", "2", "5", "a">>, latest, all}

ListStrings == {R2024b, <<"9", ".", "1", "3">>, all}

VersionArgs ==
    {NoVersion} \cup {StrVersion(v) : v \in VersionStrings}
    \cup {ListVersion(vs) : vs \in UNION {[1..n -> ListStrings] : n \in 0..MaxVersions}}

NoFrame == [arg |-> <<>>, arch |-> <<>>, version |-> <<>>, url |-> NoUrl,
            installer |-> <<>>, rmdir |-> <<>>, versions |-> <<>>,
            error |-> <<>>]

NoCall == [fn |-> "", version |-> NoVersion, auto_answer |-> FALSE]

NoLast == [version |-> <<>>, arch |-> <<>>, url |-> NoUrl]

Init ==
    /\ host \in Hosts
    /\ fs \in Filesystems
    /\ INSTALLERS = INSTALLERS_seed
    /\ pc = "idle"
    /\ call = NoCall
    /\ queue = <<>>
    /\ caught = <<>>
    /\ frame = NoFrame
    /\ log = <<>>
    /\ asked = <<>>
    /\ fs0 = fs
    /\ ret = -1
    /\ result = ""
    /\ last = NoLast
    /\ entries = {}

\* A caller invokes install(version, PREFIX, auto_answer) or
\* uninstall(version, PREFIX, auto_answer).
Call ==
    /\ pc = "idle"
    /\ \E fn \in {"install", "uninstall"}, v \in VersionArgs, auto \in BOOLEAN :
           call' = [fn |-> fn, version |-> v, auto_answer |-> auto]
    /\ pc' = "entry"
    /\ fs0' = fs
    /\ UNCHANGED <<entries, last, host, fs, INSTALLERS, queue, caught, frame, log, asked, ret,
                   result>>

\* The call is over and the caller goes on.
Return ==
    /\ pc = "done"
    /\ pc' = "idle"
    /\ call' = NoCall
    /\ queue' = <<>>
    /\ caught' = <<>>
    /\ frame' = NoFrame
    /\ log' = <<>>
    /\ asked' = <<>>
    /\ fs0' = fs
    /\ ret' = -1
    /\ result' = ""
    /\ UNCHANGED <<entries, last, host, fs, INSTALLERS>>

\* The answers a question can get: input() is not called under auto_answer.
Typed == IF call.auto_answer THEN {<<>>} ELSE Answers

Question(gate, default, answer, reply) ==
    [gate |-> gate, default |-> default, auto |-> call.auto_answer,
     answer |-> answer, reply |-> reply]

\* A temporary directory that is removed only when the block is left
\* without an exception
TemporaryDirectory_exit_on_success(f, raised) ==
    IF raised = "" THEN rmtree(f, TMPDIR) ELSE f

\* Leaving the `with tempfile.TemporaryDirectory()` block, by return or by
\* exception: the directory and its content are removed.
TemporaryDirectory_exit(f, raised) == rmtree(f, TMPDIR)

\* ------------------------------------------------------------------------
\*  install (impl.py)
\* ------------------------------------------------------------------------

\* install ends, outside the with block (raised = "": it returns)
install_ends(raised) ==
    /\ pc' = "done"
    /\ result' = IF raised = "" THEN "returned" ELSE raised

\* "prepare": arch = guess_arch(); version = guess_release(version or
\* "latest", arch); url = guess_installer(version, arch).  The value is the
\* exception raised (exc) or the three locals, with the probes issued and
\* the catalog afterwards.
Prepared(e, ver, a, rel, u, p, c) ==
    [exc |-> e, arg |-> ver, arch |-> a, version |-> rel, url |-> u,
     probes |-> p, cat |-> c]

install_locate(ver, a, gr, gi) ==
    IF gi.exc # ""
    THEN Prepared(gi.exc, ver, a, <<>>, NoUrl, gr.probes \o gi.probes, gi.cat)
    ELSE Prepared("", ver, a, gr.val, gi.val, gr.probes \o gi.probes, gi.cat)

install_resolve(ver, a, h, gr, net) ==
    IF gr.exc # ""
    THEN Prepared(gr.exc, ver, a, <<>>, NoUrl, gr.probes, gr.cat)
    ELSE install_locate(ver, a, gr, guess_installer(gr.val, a, h, gr.cat, net))

install_prepared(ver, h, year, cat, net) ==
    IF guess_arch(h).exc # ""
    THEN Prepared(guess_arch(h).exc, ver, <<>>, <<>>, NoUrl, <<>>, cat)
    ELSE install_resolve(ver, guess_arch(h).val, h,
             guess_release(ver, guess_arch(h).val, h, year, cat, net), net)

\* The step of install that `prepared` describes
install_prepare_step(prepared) ==
    /\ INSTALLERS' = prepared.cat
    /\ IF prepared.exc # ""
       THEN /\ install_ends(prepared.exc)
            /\ log' = log \o [i \in 1..Len(prepared.probes) |-> "url_exists"]
            /\ UNCHANGED frame
       ELSE /\ pc' = "check_exists"
            /\ frame' = [frame EXCEPT !.arg = prepared.arg,
                                      !.arch = prepared.arch,
                                      !.version = prepared.version,
                                      !.url = prepared.url]
            /\ log' = log \o [i \in 1..Len(prepared.probes) |-> "url_exists"]
                          \o <<"resolved">>
            /\ UNCHANGED result

\* "iterate if multiple versions" and "prepare": a list is handed to map(),
\* whose iterator is never consumed; else the arch, release and URL are found.
install_prepare ==
    /\ pc = "entry"
    /\ call.fn = "install"
    /\ IF call.version.type = "list"
       THEN /\ install_ends("")
            /\ UNCHANGED <<frame, log, INSTALLERS>>
       ELSE \E year \in Years, net \in Nets :
                install_prepare_step(
                    install_prepared(IF call.version.type = "NoneType" THEN latest
                                     ELSE call.version.items[1],
                                     host, year, INSTALLERS, net))
    /\ UNCHANGED <<entries, last, host, fs, call, queue, caught, asked, fs0, ret>>

\* "check already exists": the question is asked only if the license file is
\* there, and a "no" ends the call without an exception.
install_check_exists ==
    /\ pc = "check_exists"
    /\ IF join(join(PREFIX, frame.version), license) \in fs
       THEN \E answer \in Typed :
            LET ok == askuser("no", call.auto_answer, FALSE, answer)
            IN  /\ log' = Append(log, "reinstall?")
                /\ asked' = Append(asked, Question("reinstall", "no", answer, ok))
                /\ IF ok = "True" THEN pc' = "ask_download" /\ UNCHANGED result
                   ELSE IF ok = "False" THEN install_ends("")
                   ELSE install_ends(ok)
       ELSE /\ pc' = "ask_download"
            /\ UNCHANGED <<asked, log, result>>
    /\ UNCHANGED <<entries, last, host, fs, INSTALLERS, call, queue, caught, frame, fs0, ret>>

\* "download": the question, before the temporary directory is created
install_ask_download ==
    /\ pc = "ask_download"
    /\ \E answer \in Typed :
       LET ok == askuser("yes", call.auto_answer, TRUE, answer)
       IN  /\ log' = Append(log, "download?")
           /\ asked' = Append(asked, Question("download", "yes", answer, ok))
           /\ IF ok = "True" THEN pc' = "download" /\ UNCHANGED result
              ELSE install_ends(ok)
    /\ UNCHANGED <<entries, last, host, fs, INSTALLERS, call, queue, caught, frame, fs0, ret>>

\* A download step that takes every downloaded file for the installer itself
install_download_no_unzip ==
    /\ pc = "download"
    /\ \E transfer \in Transfers :
       LET tmpdir == TMPDIR
           installer == url_download(frame.url, tmpdir, transfer)
       IN  IF installer.exc # ""
           THEN /\ fs' = TemporaryDirectory_exit(fs \cup {tmpdir}, installer.exc)
                /\ log' = log \o <<"mkdtemp">>
                /\ install_ends(installer.exc)
                /\ UNCHANGED frame
           ELSE /\ fs' = fs \cup {tmpdir, installer.val}
                /\ log' = log \o <<"mkdtemp", "download">>
                /\ frame' = [frame EXCEPT !.installer = installer.val]
                /\ pc' = "ask_license"
                /\ UNCHANGED result
    /\ UNCHANGED <<entries, last, host, INSTALLERS, call, queue, caught, asked, fs0, ret>>

\* "download": the temporary directory is created and the installer fetched
install_download ==
    /\ pc = "download"
    /\ \E transfer \in Transfers :
       LET tmpdir == TMPDIR
           installer == url_download(frame.url, tmpdir, transfer)
       IN  IF installer.exc # ""
           THEN /\ fs' = TemporaryDirectory_exit(fs \cup {tmpdir}, installer.exc)
                /\ log' = log \o <<"mkdtemp">>
                /\ install_ends(installer.exc)
                /\ UNCHANGED frame
           ELSE /\ fs' = fs \cup {tmpdir, installer.val}
                /\ log' = log \o <<"mkdtemp", "download">>
                /\ frame' = [frame EXCEPT !.installer = installer.val]
                /\ pc' = IF EndsWith(installer.val[Len(installer.val)],
                                     <<".">> \o zip)
                         THEN "ask_unzip" ELSE "ask_license"
                /\ UNCHANGED result
    /\ UNCHANGED <<entries, last, host, INSTALLERS, call, queue, caught, asked, fs0, ret>>

\* "unzip": the question
install_ask_unzip ==
    /\ pc = "ask_unzip"
    /\ \E answer \in Typed :
       LET ok == askuser("yes", call.auto_answer, TRUE, answer)
       IN  /\ log' = Append(log, "unzip?")
           /\ asked' = Append(asked, Question("unzip", "yes", answer, ok))
           /\ IF ok = "True"
              THEN pc' = "unzip" /\ UNCHANGED <<result, fs>>
              ELSE /\ fs' = TemporaryDirectory_exit(fs, ok)
                   /\ install_ends(ok)
    /\ UNCHANGED <<entries, last, host, INSTALLERS, call, queue, caught, frame, fs0, ret>>

\* "unzip": the archive is extracted into the temporary directory and the
\* installer is looked for under its platform's name.
install_unzip ==
    /\ pc = "unzip"
    /\ \E members \in Archives :
           fs' = fs \cup {join(TMPDIR, m) : m \in members}
    /\ frame' = [frame EXCEPT !.installer =
                    IF Take(frame.arch, 3) = <<"w", "i", "n">>
                    THEN join(TMPDIR, <<"setup.exe">>)
                    ELSE join(TMPDIR, <<"install">>)]
    /\ log' = log \o <<"extract">>
    /\ pc' = "ask_license"
    /\ UNCHANGED <<entries, last, host, INSTALLERS, call, queue, caught, asked, fs0, ret, result>>

\* "install": the installer must be there, and the license must be agreed to
install_ask_license ==
    /\ pc = "ask_license"
    /\ IF frame.installer \notin fs
       THEN /\ fs' = TemporaryDirectory_exit(fs, "FileNotFoundError")
            /\ install_ends("FileNotFoundError")
            /\ UNCHANGED <<asked, log>>
       ELSE \E answer \in Typed :
            LET ok == askuser("yes", call.auto_answer, TRUE, answer)
            IN  /\ log' = Append(log, "license?")
                /\ asked' = Append(asked, Question("license", "yes", answer, ok))
                /\ IF ok = "True"
                   THEN pc' = "run_installer" /\ UNCHANGED <<result, fs>>
                   ELSE /\ fs' = TemporaryDirectory_exit(fs, ok)
                        /\ install_ends(ok)
    /\ UNCHANGED <<entries, last, host, INSTALLERS, call, queue, caught, frame, fs0, ret>>

\* What the native installer may leave under <prefix>/<version>, whatever it
\* returns: nothing new, the directory, or the directory with the license.
Installed(f, path_installed) ==
    { f, f \cup {PREFIX, path_installed},
      f \cup {PREFIX, path_installed, join(path_installed, license)} }

\* "install": on macOS above 10.14 the quarantine attribute is cleared, then
\* the installer runs; its return code is printed, not acted upon.
install_run_installer ==
    /\ pc = "run_installer"
    /\ \E returncode \in {0, 1} : ret' = returncode
    /\ fs' \in Installed(fs, join(PREFIX, frame.version))
    /\ log' = log \o (IF /\ Take(frame.arch, 3) = <<"m", "a", "c">>
                         /\ TupleGT(macos_version(host), <<10, 14>>)
                      THEN <<"xattr">> ELSE <<>>)
                  \o <<"installer">>
    /\ pc' = "verify"
    /\ UNCHANGED <<entries, last, host, INSTALLERS, call, queue, caught, frame, asked, fs0, result>>

\* A check that takes a return code of zero for a successful installation
install_verify_returncode ==
    /\ pc = "verify"
    /\ LET path_installed == join(PREFIX, frame.version)
           raised == IF ret # 0 /\ join(path_installed, license) \notin fs
                     THEN "FileNotFoundError" ELSE ""
       IN  /\ fs' = TemporaryDirectory_exit(fs, raised)
           /\ install_ends(raised)
    /\ log' = log \o <<"verify">>
    /\ UNCHANGED <<entries, last, host, INSTALLERS, call, queue, caught, frame, asked, fs0, ret>>

\* "check": the license file must be under <prefix>/<version>
install_verify ==
    /\ pc = "verify"
    /\ LET path_installed == join(PREFIX, frame.version)
           raised == IF join(path_installed, license) \notin fs
                     THEN "FileNotFoundError" ELSE ""
       IN  /\ fs' = TemporaryDirectory_exit(fs, raised)
           /\ install_ends(raised)
    /\ log' = log \o <<"verify">>
    /\ UNCHANGED <<entries, last, host, INSTALLERS, call, queue, caught, frame, asked, fs0, ret>>

\* ------------------------------------------------------------------------
\*  uninstall (impl.py)
\* ------------------------------------------------------------------------

\* An end of uninstall whose exception leaves the loop over the versions
uninstall_ends_propagates(raised) ==
    IF call.version.type = "list" /\ raised = ""
    THEN /\ pc' = "loop"
         /\ UNCHANGED <<caught, result>>
    ELSE /\ pc' = "done"
         /\ result' = IF raised = "" THEN "returned" ELSE raised
         /\ UNCHANGED caught

\* The (inner) call of uninstall ends.  Inside the loop over a list of
\* versions an exception is caught and printed, and the loop goes on.
uninstall_ends(raised) ==
    IF call.version.type = "list"
    THEN /\ pc' = "loop"
         /\ caught' = IF raised = "" THEN caught ELSE Append(caught, raised)
         /\ UNCHANGED result
    ELSE /\ pc' = "done"
         /\ result' = IF raised = "" THEN "returned" ELSE raised
         /\ UNCHANGED caught

\* "iterate if multiple versions": enter the loop, or go on with the version
uninstall_entry ==
    /\ pc = "entry"
    /\ call.fn = "uninstall"
    /\ IF call.version.type = "list"
       THEN /\ pc' = "loop"
            /\ queue' = call.version.items
            /\ UNCHANGED frame
       ELSE /\ pc' = "u_prepare"
            /\ frame' = [frame EXCEPT !.arg =
                            IF call.version.type = "NoneType" THEN <<>>
                            ELSE call.version.items[1]]
            /\ UNCHANGED queue
    /\ UNCHANGED <<entries, last, host, fs, INSTALLERS, call, caught, log, asked, fs0, ret, result>>

\* for a_version in version: uninstall(a_version, prefix, auto_answer)
uninstall_loop ==
    /\ pc = "loop"
    /\ IF queue = <<>>
       THEN /\ pc' = "done"
            /\ result' = "returned"
            /\ UNCHANGED <<queue, frame, log, asked, fs0>>
       ELSE /\ pc' = "u_prepare"
            /\ frame' = [NoFrame EXCEPT !.arg = Head(queue)]
            /\ queue' = Tail(queue)
            /\ log' = <<>>
            /\ asked' = <<>>
            /\ fs0' = fs
            /\ UNCHANGED result
    /\ UNCHANGED <<entries, last, host, fs, INSTALLERS, call, caught, ret>>

\* "prepare": the directory to remove.  rmdir is assigned from itself when
\* the version is not "all", before it has a value.
uninstall_prepare ==
    /\ pc = "u_prepare"
    /\ LET ga == guess_arch(host)
           ver == IF frame.arg = <<>> THEN all ELSE frame.arg
           rel == IF ver # all THEN matlab_release(ver) ELSE Returned(ver)
       IN  IF ga.exc # ""
           THEN uninstall_ends(ga.exc) /\ UNCHANGED frame
           ELSE IF rel.exc # ""
           THEN uninstall_ends(rel.exc) /\ UNCHANGED frame
           ELSE IF LowerStr(rel.val) # all
           THEN uninstall_ends("UnboundLocalError") /\ UNCHANGED frame
           ELSE /\ pc' = "u_ask"
                /\ frame' = [frame EXCEPT !.arch = ga.val, !.version = rel.val,
                                          !.rmdir = PREFIX]
                /\ UNCHANGED <<caught, result>>
    /\ UNCHANGED <<entries, last, host, fs, INSTALLERS, call, queue, log, asked, fs0, ret>>

\* A question whose answer is not looked at
uninstall_ask_ignored ==
    /\ pc = "u_ask"
    /\ \E answer \in Typed :
       LET ok == askuser("yes", call.auto_answer, TRUE, answer)
       IN  /\ log' = Append(log, "remove?")
           /\ asked' = Append(asked, Question("remove", "yes", answer, ok))
           /\ pc' = "u_remove"
    /\ UNCHANGED <<entries, last, host, fs, INSTALLERS, call, queue, caught, frame, fs0, ret,
                   result>>

\* "uninstall": the question
uninstall_ask ==
    /\ pc = "u_ask"
    /\ \E answer \in Typed :
       LET ok == askuser("yes", call.auto_answer, TRUE, answer)
       IN  /\ log' = Append(log, "remove?")
           /\ asked' = Append(asked, Question("remove", "yes", answer, ok))
           /\ IF ok = "True" THEN pc' = "u_remove" /\ UNCHANGED <<caught, result>>
              ELSE uninstall_ends(ok)
    /\ UNCHANGED <<entries, last, host, fs, INSTALLERS, call, queue, frame, fs0, ret>>

\* The orders os.listdir() may give the names in
Orders(names) ==
    {o \in [1..Cardinality(names) -> names] : \A n \in names : \E i \in DOMAIN o : o[i] = n}

\* "uninstall": Windows lists the versions to call the uninstaller of; the
\* other platforms remove the directory.
uninstall_remove ==
    /\ pc = "u_remove"
    /\ IF Take(frame.arch, 3) = <<"w", "i", "n">>
       THEN IF frame.version # all
            THEN /\ frame' = [frame EXCEPT !.versions = <<join(PREFIX, frame.version)>>]
                 /\ pc' = "u_windows"
                 /\ UNCHANGED <<fs, log, caught, result>>
            ELSE IF PREFIX \notin fs
            THEN /\ uninstall_ends("FileNotFoundError")
                 /\ UNCHANGED <<fs, log, frame>>
            ELSE /\ \E o \in Orders(listdir(fs, PREFIX)) :
                        frame' = [frame EXCEPT !.versions =
                                     [i \in DOMAIN o |-> join(PREFIX, o[i])]]
                 /\ pc' = "u_windows"
                 /\ UNCHANGED <<fs, log, caught, result>>
       ELSE IF frame.rmdir \notin fs
       THEN /\ uninstall_ends("FileNotFoundError")
            /\ UNCHANGED <<fs, log, frame>>
       ELSE /\ fs' = rmtree(fs, frame.rmdir)
            /\ log' = log \o <<"rmtree">>
            /\ uninstall_ends("")
            /\ UNCHANGED frame
    /\ UNCHANGED <<entries, last, host, INSTALLERS, call, queue, asked, fs0, ret>>

\* What running <prefix>/<ver>/bin/<arch>/Uninstall_MATLAB_Runtime.exe may
\* do: the executable is missing, or it runs and removes the version or not.
Uninstallers == {"FileNotFoundError", "kept", "removed"}

\* for ver in versions: subprocess.call(...)
uninstall_windows ==
    /\ pc = "u_windows"
    /\ IF frame.versions = <<>>
       THEN /\ uninstall_ends("")
            /\ UNCHANGED <<fs, log, frame>>
       ELSE \E outcome \in Uninstallers :
            IF outcome = "FileNotFoundError"
            THEN /\ uninstall_ends(outcome)
                 /\ UNCHANGED <<fs, log, frame>>
            ELSE /\ fs' = IF outcome = "removed"
                          THEN rmtree(fs, Head(frame.versions)) ELSE fs
                 /\ log' = log \o <<"uninstaller">>
                 /\ frame' = [frame EXCEPT !.versions = Tail(@)]
                 /\ UNCHANGED <<pc, caught, result>>
    /\ UNCHANGED <<entries, last, host, INSTALLERS, call, queue, asked, fs0, ret>>

\* ------------------------------------------------------------------------
\*  Calls of the runtime package's lookups (matlab_runtime/utils.py) and of
\*  init_sdk (impl.py)
\* ------------------------------------------------------------------------

R2025a == <<"R", "2", "0", "2", "5", "a">>

\* The arguments of the lookups: versions, and arch (<<>> for None)
LocateVersions == {R2024b, <<"9", ".", "1", "3">>, R2025a}
ReleaseVersions == {<<"9", ".", "1", "3">>, latest, latest_installed}
LocateArchs == {<<>>, win64, glnxa64}

\* What the network answers for the "b" and for the "a" release of the
\* year (the second is not asked when the first is found or cannot be
\* reached)
NetPairs ==
    {np \in Nets \X Nets : (np[1].up /\ np[1].updates = {}) \/ np[2] = np[1]}

\* The machines and the prefixes the lookups are called on
LocateHosts == {h \in Hosts : h.bits = 64 /\ h.system # "Darwin"}

LocateFilesystems ==
    {f \in Filesystems :
        \/ PREFIX \notin f
        \/ join(PREFIX, R2022b) \in f /\ join(PREFIX, R2024b) \in f
           /\ Sentinel(R2022b) \in f}

InitLocate ==
    /\ host \in LocateHosts
    /\ fs \in LocateFilesystems
    /\ INSTALLERS = INSTALLERS_seed
    /\ pc = "idle"
    /\ call = NoCall
    /\ queue = <<>>
    /\ caught = <<>>
    /\ frame = NoFrame
    /\ log = <<>>
    /\ asked = <<>>
    /\ fs0 = fs
    /\ ret = -1
    /\ result = ""
    /\ last = NoLast
    /\ entries = {}

\* A lookup fn(v, a) ends with the value r
lookup_ends(fn, v, a, r) ==
    /\ pc' = "done"
    /\ call' = [fn |-> fn, version |-> StrVersion(v), auto_answer |-> FALSE]
    /\ frame' = [NoFrame EXCEPT !.arg = v, !.arch = a,
                                !.version = IF fn = "guess_installer" THEN <<>>
                                            ELSE r.val,
                                !.url = IF fn = "guess_installer" THEN r.val
                                        ELSE NoUrl,
                                !.error = r.msg]
    /\ log' = r.probes
    /\ INSTALLERS' = r.cat
    /\ result' = IF r.exc = "" THEN "returned" ELSE r.exc

\* A caller invokes guess_installer(version, arch)
guess_installer_call ==
    /\ pc = "idle"
    /\ \E v \in LocateVersions, a \in LocateArchs, net \in Nets :
           lookup_ends("guess_installer", v, a,
                       guess_installer_runtime(v, a, host, INSTALLERS, net))
    /\ UNCHANGED <<entries, last, host, fs, queue, caught, asked, fs0, ret>>

\* A caller invokes guess_release(version, arch, PREFIX)
guess_release_call ==
    /\ pc = "idle"
    /\ \E v \in ReleaseVersions, a \in LocateArchs, year \in Years,
          np \in NetPairs :
           lookup_ends("guess_release", v, a,
                       guess_release_runtime(v, a, host, fs, PREFIX, year,
                                             INSTALLERS, np[1], np[2]))
    /\ UNCHANGED <<entries, last, host, fs, queue, caught, asked, fs0, ret>>

\* init_sdk(version, False, PREFIX) up to the check that the version is
\* installed: r is what guess_release(version, arch) of the installer
\* package answered.
init_sdk_found(v, ga, r) ==
    IF ga.exc # "" THEN Located(ga.exc, <<>>, <<>>, r.cat)
    ELSE IF r.exc # "" THEN r
    ELSE IF join(join(PREFIX, r.val), license) \notin fs
    THEN Located("FileNotFoundError", <<>>, r.probes, r.cat)
    ELSE r

\* A caller invokes init_sdk(version, install_if_missing=False, PREFIX);
\* version=None stands for "latest_installed"
init_sdk_find_version ==
    /\ pc = "idle"
    /\ \E v \in {latest_installed, R2024b}, year \in Years, net \in Nets :
           lookup_ends("init_sdk", v, <<>>,
               init_sdk_found(v, guess_arch(host),
                   guess_release(v, guess_arch(host).val, host, year,
                                 INSTALLERS, net)))
    /\ UNCHANGED <<entries, last, host, fs, queue, caught, asked, fs0, ret>>

\* The lookup is over and the caller goes on.
lookup_return ==
    /\ pc = "done"
    /\ pc' = "idle"
    /\ last' = IF call.fn = "guess_installer" /\ result = "returned"
               THEN [version |-> frame.arg, arch |-> frame.arch, url |-> frame.url]
               ELSE NoLast
    /\ call' = NoCall
    /\ frame' = NoFrame
    /\ log' = <<>>
    /\ result' = ""
    /\ UNCHANGED <<entries, host, fs, INSTALLERS, queue, caught, asked, fs0, ret>>

NextLocate ==
    \/ guess_installer_call
    \/ guess_release_call
    \/ init_sdk_find_version
    \/ lookup_return

SpecLocate == InitLocate /\ [][NextLocate]_vars

\* ------------------------------------------------------------------------
\*  Calls of the conversions between versions and releases (utils.py)
\* ------------------------------------------------------------------------

\* The releases from R2023b on, whose version is computed, not looked up
ModernReleases == YearReleases(23, MaxYear + 1) \ {<<"R", "2", "0", "2", "3", "a">>}

\* The strings handed to the conversions: the versions and the releases of
\* VERSION_TO_RELEASE, the releases after them and their versions
ConvertInputs ==
    DictKeys(VERSION_TO_RELEASE)
    \cup {VERSION_TO_RELEASE[i][2] : i \in 1..Len(VERSION_TO_RELEASE)}
    \cup ModernReleases
    \cup {matlab_version(R).val : R \in ModernReleases}

\* fn(v) ends with the value r: log holds the argument and the value
convert_ends(fn, v, r) ==
    /\ pc' = "converted"
    /\ call' = [fn |-> fn, version |-> StrVersion(v), auto_answer |-> FALSE]
    /\ log' = <<v, r.val>>
    /\ result' = IF r.exc = "" THEN "returned" ELSE r.exc

\* A caller invokes matlab_release(version)
matlab_release_call ==
    /\ pc = "idle"
    /\ \E v \in ConvertInputs : convert_ends("matlab_release", v, matlab_release(v))
    /\ UNCHANGED <<entries, last, host, fs, INSTALLERS, queue, caught, frame, asked, fs0,
                   ret>>

\* matlab_release(version) for a list or a tuple: the version is to be
\* ".".join(map(str(version[:2]))), and map() called with one argument
\* raises TypeError.
matlab_release_pair(pair) == Raised("TypeError")

\* The (major, minor) pairs handed to matlab_release
ConvertPairs == {<<23, 2>>, <<24, 1>>, <<24, 2>>}

\* A caller invokes matlab_release(version) with a pair
matlab_release_pair_call ==
    /\ pc = "idle"
    /\ \E pair \in ConvertPairs :
           /\ pc' = "converted"
           /\ call' = [fn |-> "matlab_release",
                       version |-> [type |-> "tuple", items |-> pair],
                       auto_answer |-> FALSE]
           /\ log' = <<pair, matlab_release_pair(pair).val>>
           /\ result' = IF matlab_release_pair(pair).exc = "" THEN "returned"
                         ELSE matlab_release_pair(pair).exc
    /\ UNCHANGED <<entries, last, host, fs, INSTALLERS, queue, caught, frame, asked, fs0,
                   ret>>

\* A caller invokes matlab_version(version)
matlab_version_call ==
    /\ pc = "idle"
    /\ \E v \in ConvertInputs : convert_ends("matlab_version", v, matlab_version(v))
    /\ UNCHANGED <<entries, last, host, fs, INSTALLERS, queue, caught, frame, asked, fs0,
                   ret>>

\* guess_prefix() of the installer package, environ being whether
\* MATLAB_RUNTIME_PATH is in os.environ, and its value
guess_prefix(h, environ) ==
    IF environ.set THEN Returned(environ.value)
    ELSE IF guess_arch(h).exc # "" THEN guess_arch(h)
    ELSE IF Take(guess_arch(h).val, 3) = <<"w", "i", "n">>
    THEN Returned(<<"C:\\Program Files\\MATLAB\\MATLAB Runtime\\">>)
    ELSE IF Take(guess_arch(h).val, 4) = <<"g", "l", "n", "x">>
    THEN Returned(<<"/usr/local/MATLAB/MATLAB_Runtime">>)
    ELSE IF Take(guess_arch(h).val, 3) = <<"m", "a", "c">>
    THEN Returned(<<"/Applications/MATLAB/MATLAB_Runtime">>)
    ELSE Raised("AssertionError")

\* guess_prefix() of the runtime package: the variable counts when its
\* value is not empty, and the Linux default is returned when the whole of
\* arch (arch[:]) is "gln".
guess_prefix_runtime(h, environ) ==
    IF environ.set /\ environ.value # <<>> THEN Returned(environ.value)
    ELSE IF guess_arch_runtime(h).exc # "" THEN guess_arch_runtime(h)
    ELSE IF Take(guess_arch_runtime(h).val, 3) = <<"w", "i", "n">>
    THEN Returned(<<"C:\\Program Files\\MATLAB\\MATLAB Runtime\\">>)
    ELSE IF guess_arch_runtime(h).val = <<"g", "l", "n">>
    THEN Returned(<<"/usr/local/MATLAB/MATLAB_Runtime">>)
    ELSE IF Take(guess_arch_runtime(h).val, 3) = <<"m", "a", "c">>
    THEN Returned(<<"/Applications/MATLAB/MATLAB_Runtime">>)
    ELSE Raised("AssertionError")

\* A caller invokes guess_prefix() of either package
guess_prefix_call ==
    /\ pc = "idle"
    /\ \E copy \in {"matlab_runtime_installer", "matlab_runtime"},
          environ \in {[set |-> FALSE, value |-> <<>>],
                       [set |-> TRUE, value |-> <<>>],
                       [set |-> TRUE, value |-> <<"/opt/mcr">>]} :
         LET r == IF copy = "matlab_runtime" THEN guess_prefix_runtime(host, environ)
                  ELSE guess_prefix(host, environ)
         IN  /\ call' = [fn |-> "guess_prefix", version |-> NoVersion,
                         auto_answer |-> FALSE, copy |-> copy,
                         environ |-> environ]
             /\ log' = <<r.val>>
             /\ result' = IF r.exc = "" THEN "returned" ELSE r.exc
    /\ pc' = "converted"
    /\ UNCHANGED <<entries, last, host, fs, INSTALLERS, queue, caught, frame,
                   asked, fs0, ret>>

\* A caller invokes guess_arch() of either package
guess_arch_call ==
    /\ pc = "idle"
    /\ \E copy \in {"matlab_runtime_installer", "matlab_runtime"} :
         LET r == IF copy = "matlab_runtime" THEN guess_arch_runtime(host)
                  ELSE guess_arch(host)
         IN  /\ call' = [fn |-> "guess_arch", version |-> NoVersion,
                         auto_answer |-> FALSE, copy |-> copy]
             /\ log' = <<r.val>>
             /\ result' = IF r.exc = "" THEN "returned" ELSE r.exc
    /\ pc' = "converted"
    /\ UNCHANGED <<entries, last, host, fs, INSTALLERS, queue, caught, frame,
                   asked, fs0, ret>>

\* The caller hands the value returned to the opposite conversion
convert_back ==
    /\ pc = "converted"
    /\ call.fn \in {"matlab_release", "matlab_version"}
    /\ result = "returned"
    /\ LET r == IF call.fn = "matlab_release" THEN matlab_version(log[2])
                ELSE matlab_release(log[2])
       IN  /\ log' = Append(log, r.val)
           /\ result' = IF r.exc = "" THEN "returned" ELSE r.exc
    /\ pc' = "converted_back"
    /\ UNCHANGED <<entries, last, host, fs, INSTALLERS, call, queue, caught, frame, asked,
                   fs0, ret>>

\* The caller goes on.
convert_return ==
    /\ pc \in {"converted", "converted_back"}
    /\ pc' = "idle"
    /\ call' = NoCall
    /\ log' = <<>>
    /\ result' = ""
    /\ UNCHANGED <<entries, last, host, fs, INSTALLERS, queue, caught, frame, asked, fs0,
                   ret>>

NextConvert ==
    \/ matlab_release_call
    \/ matlab_release_pair_call
    \/ matlab_version_call
    \/ guess_prefix_call
    \/ guess_arch_call
    \/ convert_back
    \/ convert_return

SpecConvert == Init /\ [][NextConvert]_vars

\* ------------------------------------------------------------------------
\*  url_download of the runtime package (matlab_runtime/utils.py)
\* ------------------------------------------------------------------------

\* The directory that url_download is given as out, or in which the file
\* is that it is given as out
TMP == << <<"tmp">> >>

\* A caller invokes url_download(url, out, retry): out becomes the path
\* below it when it is a directory, and the loop starts.
url_download_runtime_call ==
    /\ pc = "idle"
    /\ \E retry \in 0..MaxRetry, out \in {TMP, join(TMP, <<"runtime.zip">>)} :
           /\ call' = [fn |-> "url_download", version |-> NoVersion,
                       auto_answer |-> FALSE, retry |-> retry]
           /\ frame' = [NoFrame EXCEPT
                            !.url = INSTALLERS[win64][R2024b],
                            !.installer = IF out = TMP /\ TMP \in fs
                                          THEN join(out, basename(INSTALLERS[win64][R2024b]))
                                          ELSE out]
    /\ pc' = "attempt"
    /\ UNCHANGED <<entries, last, host, fs, INSTALLERS, queue, caught, log, asked, fs0, ret,
                   result>>

\* A loop that goes on after a transfer succeeded
url_download_runtime_attempt_no_break ==
    /\ pc = "attempt"
    /\ Len(log) < call.retry
    /\ \E transfer \in Transfers :
           /\ log' = Append(log, transfer)
           /\ fs' = IF transfer = "200" THEN fs \cup {frame.installer} ELSE fs
           /\ IF transfer = "200" /\ Len(log) + 1 = call.retry
              THEN pc' = "done" /\ result' = "returned"
              ELSE UNCHANGED <<pc, result>>
    /\ UNCHANGED <<entries, last, host, INSTALLERS, call, queue, caught, frame, asked, fs0,
                   ret>>

\* for _ in range(retry): one request.urlretrieve(url, out), which writes
\* the file and ends the loop, or raises and is caught (exc = e)
url_download_runtime_attempt ==
    /\ pc = "attempt"
    /\ Len(log) < call.retry
    /\ \E transfer \in Transfers :
           /\ log' = Append(log, transfer)
           /\ IF transfer = "200"
              THEN /\ fs' = fs \cup {frame.installer}
                   /\ pc' = "done"
                   /\ result' = "returned"
              ELSE UNCHANGED <<fs, pc, result>>
    /\ UNCHANGED <<entries, last, host, INSTALLERS, call, queue, caught, frame, asked, fs0,
                   ret>>

\* The loop ended without a transfer: raise DownloadError(str(exc))
url_download_runtime_exhausted ==
    /\ pc = "attempt"
    /\ Len(log) = call.retry
    /\ pc' = "done"
    /\ result' = "DownloadError"
    /\ frame' = [frame EXCEPT !.error = IF log = <<>> THEN <<"None">>
                                        ELSE <<log[Len(log)]>>]
    /\ UNCHANGED <<entries, last, host, fs, INSTALLERS, call, queue, caught, log, asked,
                   fs0, ret>>

NextFetch ==
    \/ url_download_runtime_call
    \/ url_download_runtime_attempt
    \/ url_download_runtime_exhausted
    \/ Return

SpecFetch == InitLocate /\ [][NextFetch]_vars

\* ------------------------------------------------------------------------
\*  Files: ZipFileWithExecPerm (both copies of utils.py) and patch_libcrypto
\*  (matlab_runtime/utils.py)
\* ------------------------------------------------------------------------

\* A disk d is the pair of the paths that exist and of the entries whose
\* content is followed: [path, kind ("file" or "link"), text].

\* shutil.move(src, dst): dst is replaced by what src was
move(d, src, dst) ==
    [fs |-> (d.fs \ {src}) \cup {dst},
     entries |-> {e \in d.entries : e.path \notin {src, dst}}
                 \cup {[e EXCEPT !.path = dst] : e \in {x \in d.entries : x.path = src}}]

\* The archives, as the sequence of their members in stored order: a
\* symlink member's data is the text of its target.
ZipArchives ==
    LET ZipMembers ==
            { [name |-> <<"libssl.dylib">>, link |-> TRUE,
               data |-> "libssl.3.dylib"],
              [name |-> <<"libcrypto.dylib">>, link |-> TRUE,
               data |-> "libcrypto.3.dylib"],
              [name |-> <<"install">>, link |-> FALSE, data |-> "#!/bin/sh"] }
    IN  {a \in UNION {[1..n -> ZipMembers] : n \in 1..MaxMembers} :
            \A i, j \in DOMAIN a : i # j => a[i] # a[j]}

\* zipfile.ZipFile._extract_member: the data of the member is written to a
\* regular file, symlink member or not
ZipFile_extract_member(d, member, targetpath) ==
    [fs |-> d.fs \cup {targetpath},
     entries |-> {e \in d.entries : e.path # targetpath}
                 \cup {[path |-> targetpath, kind |-> "file", text |-> member.data]}]

\* An _extract_member that is the one of zipfile.ZipFile
extract_member_plain(d, member, targetpath, system, symlink) ==
    ZipFile_extract_member(d, member, targetpath)

\* ZipFileWithExecPerm._extract_member of the installer package.  symlink
\* is what os.symlink does where nothing is in its way: "ok" or "OSError".
\* The first os.symlink finds the file just written at targetpath and
\* raises FileExistsError, an OSError; the second one is tried after the
\* file was moved aside.
extract_member(d, member, targetpath, system, symlink) ==
    LET written == ZipFile_extract_member(d, member, targetpath)
        backup == [targetpath EXCEPT ![Len(targetpath)] = @ \o <<".__backup__">>]
        link == [path |-> targetpath, kind |-> "link", text |-> member.data]
        aside == move(written, targetpath, backup)
    IN  IF ~member.link THEN written
        ELSE IF targetpath \notin written.fs /\ symlink = "ok"
        THEN [fs |-> written.fs \cup {targetpath},
              entries |-> written.entries \cup {link}]
        ELSE IF symlink = "ok"
        THEN [fs |-> aside.fs \cup {targetpath},
              entries |-> aside.entries \cup {link}]
        ELSE move(aside, backup, targetpath)

\* ZipFileWithExecPerm._extract_member of the runtime package: no link is
\* tried on Windows.
extract_member_runtime(d, member, targetpath, system, symlink) ==
    LET written == ZipFile_extract_member(d, member, targetpath)
        backup == [targetpath EXCEPT ![Len(targetpath)] = @ \o <<".__backup__">>]
        link == [path |-> targetpath, kind |-> "link", text |-> member.data]
        aside == move(written, targetpath, backup)
    IN  IF system = "Windows" \/ ~member.link THEN written
        ELSE IF symlink = "ok"
        THEN [fs |-> aside.fs \cup {targetpath},
              entries |-> aside.entries \cup {link}]
        ELSE move(aside, backup, targetpath)

\* with ZipFileWithExecPerm(installer) as zip: zip.extractall(tmpdir), in
\* a temporary directory just created
extractall_call ==
    /\ pc = "idle"
    /\ \E copy \in {"matlab_runtime_installer", "matlab_runtime"},
          members \in ZipArchives :
           call' = [fn |-> "extractall", version |-> NoVersion,
                    auto_answer |-> FALSE, copy |-> copy, members |-> members]
    /\ fs' = fs \cup {TMPDIR}
    /\ pc' = "extract"
    /\ UNCHANGED <<entries, last, host, INSTALLERS, queue, caught, frame, log,
                   asked, fs0, ret, result>>

\* extractall hands the members to _extract_member one after the other,
\* in the order of the archive
extractall_member ==
    /\ pc = "extract"
    /\ \E symlink \in {"ok", "OSError"} :
         LET member == call.members[Len(log) + 1]
             targetpath == join(TMPDIR, member.name)
             d == IF call.copy = "matlab_runtime"
                  THEN extract_member_runtime([fs |-> fs, entries |-> entries],
                           member, targetpath, host.system, symlink)
                  ELSE extract_member([fs |-> fs, entries |-> entries],
                           member, targetpath, host.system, symlink)
         IN  /\ fs' = d.fs
             /\ entries' = d.entries
             /\ log' = Append(log, [name |-> member.name, symlink |-> symlink])
    /\ IF Len(log) + 1 = Len(call.members)
       THEN pc' = "done" /\ result' = "returned"
       ELSE UNCHANGED <<pc, result>>
    /\ UNCHANGED <<last, host, INSTALLERS, call, queue, caught, frame, asked,
                   fs0, ret>>

\* The call is over; the temporary directory went with the `with` block
\* that created it.
files_return ==
    /\ pc = "done"
    /\ pc' = "idle"
    /\ call' = NoCall
    /\ frame' = NoFrame
    /\ log' = <<>>
    /\ result' = ""
    /\ fs' = rmtree(fs, TMPDIR)
    /\ entries' = {e \in entries : ~Under(TMPDIR, e.path)}
    /\ UNCHANGED <<last, host, INSTALLERS, queue, caught, asked, fs0, ret>>

\* _HOMEBREW_DIGESTS["openssl"]["3.4.1"]: arch -> the major versions of
\* macOS that have a digest
HOMEBREW_DIGESTS == (maca64 :> {13, 14, 15}) @@ (maci64 :> {13, 14, 15})

\* download_bottle("openssl", variant="3", out=tmpdir), transfers being
\* what the successive request.urlretrieve of url_download(url, out) do:
\* the digest is the one of the host's macOS, or of the nearest macOS that
\* has one, and the bottle is written into out unless the five attempts
\* all fail.
download_bottle(h, out, transfers) ==
    LET arch == guess_arch_runtime(h)
        macver == macos_version(h)[1]
        digesters == HOMEBREW_DIGESTS[arch.val]
        min == CHOOSE x \in digesters : \A y \in digesters : x <= y
        max == CHOOSE x \in digesters : \A y \in digesters : y <= x
        digest == IF macver \in digesters THEN macver
                  ELSE IF macver < min THEN min
                  ELSE max
    IN  IF arch.exc # "" THEN Raised(arch.exc) @@ [digest |-> 0]
        ELSE IF arch.val \notin DOMAIN HOMEBREW_DIGESTS
        THEN Raised("KeyError") @@ [digest |-> 0]
        ELSE IF \A i \in 1..5 : transfers[i] # "200"
        THEN Raised("DownloadError") @@ [digest |-> digest]
        ELSE Returned(join(out, <<"openssl-3.4.1.bottle.tar.gz">>))
                 @@ [digest |-> digest]

\* libcrypto_path + suffix on host h, matlab_path being the R2024b runtime
\* under the prefix, and the path of the library of the unpacked bottle
libcrypto_path(h, suffix) ==
    join(join(join(join(PREFIX, R2024b), <<"bin">>), guess_arch_runtime(h).val),
         <<"libcrypto.3.dylib">> \o suffix)

libcrypto_path_new ==
    join(join(join(join(TMPDIR, <<"openssl@3">>), <<"3.4.1">>), <<"lib">>),
         <<"libcrypto.3.dylib">>)

\* An except clause that re-raises without moving the library back
patch_libcrypto_except_raise(d, exc) ==
    /\ fs' = rmtree(d.fs, TMPDIR)
    /\ entries' = {e \in d.entries : ~Under(TMPDIR, e.path)}
    /\ pc' = "done"
    /\ result' = exc

\* An exception leaves the `with` block, which removes the temporary
\* directory, and reaches `except Exception`: the library is moved back
\* and the exception is raised again.
patch_libcrypto_except(d, exc) ==
    LET left == [fs |-> rmtree(d.fs, TMPDIR),
                 entries |-> {e \in d.entries : ~Under(TMPDIR, e.path)}]
        back == move(left, libcrypto_path(host, <<".tmp">>), libcrypto_path(host, <<>>))
    IN  /\ fs' = back.fs
        /\ entries' = back.entries
        /\ pc' = "done"
        /\ result' = exc

\* patch_libcrypto(matlab_path) up to the try: the library is moved aside.
\* call.original is the text of the library when the call starts.
patch_libcrypto_call ==
    /\ pc = "idle"
    /\ call' = [fn |-> "patch_libcrypto", version |-> NoVersion,
                auto_answer |-> FALSE,
                original |-> IF guess_arch_runtime(host).exc = ""
                             THEN {e.text : e \in {x \in entries :
                                       x.path = libcrypto_path(host, <<>>)}}
                             ELSE {}]
    /\ IF guess_arch_runtime(host).exc # ""
       THEN /\ pc' = "done"
            /\ result' = guess_arch_runtime(host).exc
            /\ UNCHANGED <<fs, entries, log>>
       ELSE IF libcrypto_path(host, <<>>) \notin fs
       THEN /\ pc' = "done"
            /\ result' = "FileNotFoundError"
            /\ UNCHANGED <<fs, entries, log>>
       ELSE LET d == move([fs |-> fs, entries |-> entries],
                          libcrypto_path(host, <<>>), libcrypto_path(host, <<".tmp">>))
            IN  /\ fs' = d.fs
                /\ entries' = d.entries
                /\ log' = <<"move">>
                /\ pc' = "bottle"
                /\ UNCHANGED result
    /\ UNCHANGED <<last, host, INSTALLERS, queue, caught, frame, asked, fs0,
                   ret>>

\* with tempfile.TemporaryDirectory() as tmpdir:
\*     gzipfile = download_bottle("openssl", variant="3", out=tmpdir)
patch_libcrypto_download ==
    /\ pc = "bottle"
    /\ \E transfers \in [1..5 -> Transfers] :
         LET gzipfile == download_bottle(host, TMPDIR, transfers)
         IN  /\ frame' = [frame EXCEPT !.installer = gzipfile.val,
                                       !.arg = <<gzipfile.digest>>]
             /\ IF gzipfile.exc # ""
                THEN /\ patch_libcrypto_except([fs |-> fs \cup {TMPDIR},
                                                entries |-> entries],
                                               gzipfile.exc)
                     /\ UNCHANGED log
                ELSE /\ fs' = fs \cup {TMPDIR, gzipfile.val}
                     /\ log' = Append(log, "download_bottle")
                     /\ pc' = "untar"
                     /\ UNCHANGED <<entries, result>>
    /\ UNCHANGED <<last, host, INSTALLERS, call, queue, caught, asked, fs0,
                   ret>>

\* with tarfile.open(gzipfile, "r:gz") as f: f.extractall(tmpdir).  The
\* file may be no archive (tarfile.ReadError), an archive that holds
\* openssl@3/3.4.1/lib/libcrypto.3.dylib, or one that does not.
patch_libcrypto_extractall ==
    /\ pc = "untar"
    /\ \E tar \in {"ReadError", "bottle", "other"} :
         IF tar = "ReadError"
         THEN /\ patch_libcrypto_except([fs |-> fs, entries |-> entries], tar)
              /\ UNCHANGED log
         ELSE /\ fs' = IF tar = "bottle" THEN fs \cup {libcrypto_path_new}
                       ELSE fs
              /\ entries' = IF tar = "bottle"
                            THEN entries \cup {[path |-> libcrypto_path_new,
                                                kind |-> "file",
                                                text |-> "homebrew"]}
                            ELSE entries
              /\ log' = Append(log, "extractall")
              /\ pc' = "replace"
              /\ UNCHANGED result
    /\ UNCHANGED <<last, host, INSTALLERS, call, queue, caught, frame, asked,
                   fs0, ret>>

\* shutil.move(libcrypto_path_new, libcrypto_path): it raises when the
\* file is not there, and it may raise halfway through the copy (OSError),
\* leaving a part of the file at libcrypto_path.  When it returns, the
\* `with` block ends and patch_libcrypto returns.
patch_libcrypto_move ==
    /\ pc = "replace"
    /\ log' = Append(log, "move")
    /\ \E copy \in {"ok", "OSError"} :
         IF libcrypto_path_new \notin fs
         THEN patch_libcrypto_except([fs |-> fs, entries |-> entries],
                                     "FileNotFoundError")
         ELSE IF copy = "OSError"
         THEN patch_libcrypto_except(
                  [fs |-> fs \cup {libcrypto_path(host, <<>>)},
                   entries |-> entries \cup {[path |-> libcrypto_path(host, <<>>),
                                              kind |-> "file",
                                              text |-> "part"]}],
                  copy)
         ELSE LET d == move([fs |-> fs, entries |-> entries],
                            libcrypto_path_new, libcrypto_path(host, <<>>))
              IN  /\ fs' = rmtree(d.fs, TMPDIR)
                  /\ entries' = {e \in d.entries : ~Under(TMPDIR, e.path)}
                  /\ pc' = "done"
                  /\ result' = "returned"
    /\ UNCHANGED <<last, host, INSTALLERS, call, queue, caught, frame, asked,
                   fs0, ret>>

\* The machines with a runtime whose libcrypto is the one MathWorks ships,
\* or is missing
InitFiles ==
    /\ host \in Hosts
    /\ \E lib \in (IF guess_arch_runtime(host).exc = ""
                    THEN {{libcrypto_path(host, <<>>)}} ELSE {}) \cup {{}} :
           /\ fs = {<< <<"MATLAB">> >>, TMP, PREFIX, join(PREFIX, R2024b)}
                   \cup lib
           /\ entries = {[path |-> p, kind |-> "file", text |-> "MathWorks"] :
                             p \in lib}
    /\ INSTALLERS = INSTALLERS_seed
    /\ pc = "idle"
    /\ call = NoCall
    /\ queue = <<>>
    /\ caught = <<>>
    /\ frame = NoFrame
    /\ log = <<>>
    /\ asked = <<>>
    /\ fs0 = fs
    /\ ret = -1
    /\ result = ""
    /\ last = NoLast

NextFiles ==
    \/ extractall_call
    \/ extractall_member
    \/ patch_libcrypto_call
    \/ patch_libcrypto_download
    \/ patch_libcrypto_extractall
    \/ patch_libcrypto_move
    \/ files_return

SpecFiles == InitFiles /\ [][NextFiles]_vars

\* ------------------------------------------------------------------------
\*  Specification
\* ------------------------------------------------------------------------

Next ==
    \/ Call
    \/ Return
    \/ install_prepare
    \/ install_check_exists
    \/ install_ask_download
    \/ install_download
    \/ install_ask_unzip
    \/ install_unzip
    \/ install_ask_license
    \/ install_run_installer
    \/ install_verify
    \/ uninstall_entry
    \/ uninstall_loop
    \/ uninstall_prepare
    \/ uninstall_ask
    \/ uninstall_remove
    \/ uninstall_windows

Spec == Init /\ [][Next]_vars

\* ------------------------------------------------------------------------
\*  Properties
\* ------------------------------------------------------------------------

Range(q) == {q[i] : i \in DOMAIN q}

Count(e, q) == Cardinality({i \in DOMAIN q : q[i] = e})


\* The part of a filesystem that is the prefix and what lies below it
InPrefix(f) == {path \in f : Under(PREFIX, path)}

\* The user's answer to question q is a "no": the default "no" taken (by
\* auto_answer or by an empty answer) or a typed answer not starting with y.
Declined(q) ==
    IF q.auto \/ strip(q.answer) = <<>> THEN q.default = "no"
    ELSE Lower(Head(strip(q.answer))) # "y"

\* The gates that are asked with raise_if_no
RaisingGates == {"download", "unzip", "license", "remove"}

\* The release a str version argument names
Requested == matlab_release(call.version.items[1])

\* C1: with auto_answer set, installing a release that the catalog has for
\* the host and that is not installed yet passes every gate on every
\* supported host: no question gets another reply than yes, the call ends
\* only by returning or by a failed transfer or a missing file, the native
\* installer has run when it returns, and it returns when the license file
\* is found afterwards.
C1_AutoAnswerInstalls ==
    ( /\ pc = "done"
      /\ call.fn = "install"
      /\ call.auto_answer
      /\ call.version.type = "str"
      /\ guess_arch_runtime(host).exc = ""
      /\ Requested.exc = ""
      /\ Requested.val \in DOMAIN INSTALLERS[guess_arch_runtime(host).val]
      /\ Sentinel(Requested.val) \notin fs0 )
    => /\ result \in {"returned", "FileNotFoundError", "HTTPError", "URLError"}
       /\ \A i \in DOMAIN asked : asked[i].reply = "True"
       /\ (result = "returned" => "installer" \in Range(log))
       /\ ("verify" \in Range(log) /\ Sentinel(Requested.val) \in fs
              => result = "returned")

\* C2: once the native installer has been invoked, install raises
\* FileNotFoundError exactly when the license file is absent from
\* <prefix>/<Release>, and returns exactly when it is present, whatever the
\* installer's return code.
C2_VerifyBySentinel ==
    (pc = "done" /\ call.fn = "install" /\ "installer" \in Range(log))
    => /\ ret \in {0, 1}
       /\ result = IF Sentinel(frame.version) \in fs
                   THEN "returned" ELSE "FileNotFoundError"

\* C2 witness: the installer returned zero, the license file is missing and
\* install raised FileNotFoundError.
C2_Witness ==
    /\ pc = "done"
    /\ call.fn = "install"
    /\ ret = 0
    /\ Sentinel(frame.version) \notin fs
    /\ result = "FileNotFoundError"

\* The steps of a complete install run, in order, for a zip or another file
InstallSteps(isZip) ==
    <<"resolved", "download?", "mkdtemp", "download">>
    \o (IF isZip THEN <<"unzip?", "extract">> ELSE <<>>)
    \o <<"license?", "installer", "verify">>

\* The log without the steps that are not part of that order
RECURSIVE Steps(_)
Steps(q) ==
    IF q = <<>> THEN <<>>
    ELSE IF Head(q) \in {"reinstall?", "xattr", "url_exists"} THEN Steps(Tail(q))
    ELSE <<Head(q)>> \o Steps(Tail(q))

\* The gate a question of the log belongs to
GateOf == [e \in {"reinstall?", "download?", "unzip?", "license?", "remove?"} |->
              CASE e = "reinstall?" -> "reinstall"
                [] e = "download?" -> "download"
                [] e = "unzip?" -> "unzip"
                [] e = "license?" -> "license"
                [] OTHER -> "remove"]

\* The question of gate g was asked and answered yes
Accepted(g) == \E i \in DOMAIN asked : asked[i].gate = g /\ asked[i].reply = "True"

\* C3: in an install run the steps happen in the order resolve, download
\* confirmation, download, (for a zip: unzip confirmation, extraction),
\* license confirmation, native installer, verification, each at most once;
\* a step is taken only if every question before it was accepted, and when
\* install has failed at a step none of the later steps has been taken.
C3_InstallOrder ==
    (call.fn = "install" /\ log # <<>>) =>
        LET done == Steps(log)
            full == InstallSteps(frame.url.ext = zip)
        IN  /\ Len(done) <= Len(full)
            /\ done = SubSeq(full, 1, Len(done))
            /\ Count("installer", log) <= 1
            /\ \A i \in 1..(Len(log) - 1) :
                   log[i] \in DOMAIN GateOf => Accepted(GateOf[log[i]])
            /\ result \in {"TypeError", "UserInterruptionError"}
                   => log[Len(log)] \in DOMAIN GateOf
            /\ result \in {"HTTPError", "URLError"} => log[Len(log)] = "mkdtemp"
            /\ result = "FileNotFoundError"
                   => log[Len(log)] \in {"download", "extract", "verify"}
            /\ result \notin {"", "returned"} => pc = "done"

\* C3 witness: a run that downloaded a zip went through every step.
C3_Witness ==
    /\ pc = "done"
    /\ call.fn = "install"
    /\ result = "returned"
    /\ Steps(log) = InstallSteps(TRUE)

\* C4: when the license file of the target release exists and the reinstall
\* question is declined (typed, or auto-answered with its default "no"),
\* install returns normally and has made no network call and no change to
\* the filesystem.
C4_DeclinedReinstallIsNoOp ==
    ( /\ pc = "done"
      /\ call.fn = "install"
      /\ asked # <<>>
      /\ asked[Len(asked)].gate = "reinstall"
      /\ Declined(asked[Len(asked)]) )
    => /\ result = "returned"
       /\ fs = fs0
       /\ Range(log) \cap {"url_exists", "mkdtemp", "download", "extract",
                           "xattr", "installer"} = {}

\* C5: without auto_answer an empty answer takes the default, a typed answer
\* starting with y is a yes, and any other typed answer at the download,
\* unzip, license or remove gate ends the call with UserInterruptionError.
C5_DeclineRaisesUserInterruption ==
    \A i \in DOMAIN asked :
        ~asked[i].auto =>
            LET q == asked[i]
                typed == strip(q.answer)
            IN  /\ (typed = <<>> /\ q.default = "yes") => q.reply = "True"
                /\ (typed # <<>> /\ Lower(Head(typed)) = "y") => q.reply = "True"
                /\ (typed # <<>> /\ Lower(Head(typed)) # "y"
                        /\ q.gate \in RaisingGates)
                       => /\ q.reply = "UserInterruptionError"
                          /\ (pc = "done" /\ call.version.type # "list")
                                 => result = "UserInterruptionError"

\* C6: when install or uninstall has ended at a declined question, the
\* prefix and everything below it are as they were when the call started,
\* and no native installer or uninstaller has been started.
C6_DeclinedGateLeavesPrefix ==
    ( /\ pc \in {"done", "loop"}
      /\ asked # <<>>
      /\ Declined(asked[Len(asked)]) )
    => /\ InPrefix(fs) = InPrefix(fs0)
       /\ Range(log) \cap {"installer", "uninstaller", "rmtree"} = {}

\* C6 witness: install ended at the declined license question, after the
\* download and the extraction.
C6_Witness ==
    /\ pc = "done"
    /\ call.fn = "install"
    /\ asked # <<>>
    /\ asked[Len(asked)].gate = "license"
    /\ Declined(asked[Len(asked)])
    /\ "extract" \in Range(log)

\* C7: once install has ended, however it did, the temporary directory and
\* what was put into it do not exist.
C7_ScratchRemoved ==
    (pc = "done" /\ call.fn = "install")
    => \A path \in fs : ~Under(TMPDIR, path)

\* C7 witness: install created the directory, ran the installer and failed
\* at the verification.
C7_Witness ==
    /\ pc = "done"
    /\ call.fn = "install"
    /\ "mkdtemp" \in Range(log)
    /\ "verify" \in Range(log)
    /\ result = "FileNotFoundError"

\* C8: when install has returned from a call with a list of versions, the
\* install flow has run once for every version of the list.
C8_InstallEveryVersion ==
    ( /\ pc = "done"
      /\ call.fn = "install"
      /\ call.version.type = "list"
      /\ result = "returned" )
    => Count("resolved", log) = Len(call.version.items)

\* C9: on Linux or macOS, uninstall of one version whose directory exists,
\* the removal being confirmed, removes <prefix>/<Release> and what is below
\* it, and nothing else.
C9_UninstallOneVersion ==
    ( /\ pc = "done"
      /\ call.fn = "uninstall"
      /\ call.version.type = "str"
      /\ call.version.items[1] # all
      /\ call.auto_answer
      /\ host.system \in {"Linux", "Darwin"}
      /\ Requested.exc = ""
      /\ join(PREFIX, Requested.val) \in fs0 )
    => fs = rmtree(fs0, join(PREFIX, Requested.val))

\* C10: on Linux or macOS, uninstall of "all" (or of no version) removes the
\* prefix and what is below it, and nothing else, when the question is
\* answered yes, and removes nothing when it is declined.
C10_UninstallAll ==
    ( /\ pc = "done"
      /\ call.fn = "uninstall"
      /\ \/ call.version.type = "NoneType"
         \/ call.version.type = "str" /\ call.version.items[1] = all
      /\ host.system \in {"Linux", "Darwin"}
      /\ asked # <<>> )
    => fs = IF Declined(asked[1]) THEN fs0 ELSE rmtree(fs0, PREFIX)

\* C11: uninstall of a list takes the versions in the order of the list; an
\* exception raised for one of them (a declined question included) is caught
\* and recorded, the versions after it are still taken, and the call returns
\* normally once the list is exhausted.
C11_UninstallListIsolatesFailures ==
    ( /\ call.fn = "uninstall"
      /\ call.version.type = "list"
      /\ pc # "entry" )
    => LET items == call.version.items
           started == Len(items) - Len(queue)
       IN  /\ started >= 0
           /\ queue = SubSeq(items, started + 1, Len(items))
           /\ pc \in {"u_prepare", "u_ask", "u_remove", "u_windows"}
                  => started >= 1 /\ frame.arg = items[started]
           /\ Len(caught) <= started
           /\ result \in {"", "returned"}
           /\ pc = "done" => queue = <<>> /\ result = "returned"

\* C11 witness: the first version of a list failed, the failure was caught,
\* the second version was then uninstalled and the call returned.
C11_Witness ==
    /\ pc = "done"
    /\ call.fn = "uninstall"
    /\ call.version.type = "list"
    /\ Len(call.version.items) = 2
    /\ caught = <<"UnboundLocalError">>
    /\ "rmtree" \in Range(log)
    /\ result = "returned"

\* ------------------------------------------------------------------------
\*  Properties of the lookups
\* ------------------------------------------------------------------------

\* The arch and the release a lookup works with: arch or guess_arch(), and
\* matlab_release(version)
CallArch == IF frame.arch = <<>> THEN guess_arch_runtime(host) ELSE Returned(frame.arch)

CallRelease == matlab_release(frame.arg)

ModernUrl(R, U, A) ==
    [template |-> 2, release |-> R, update |-> U, arch |-> A, ext |-> zip]

\* C12: a call of guess_installer for a version and an arch whose release
\* the catalog holds returns the catalog's entry and issues no existence
\* check; ("R2024b", "win64") gives the modern-template URL of update 5 and
\* ("9.13", "glnxa64") the one of R2022b, update 10.
C12_CatalogEntryWithoutProbe ==
    [][ ( /\ pc = "idle"
          /\ call'.fn = "guess_installer"
          /\ CallArch'.exc = ""
          /\ CallRelease'.exc = ""
          /\ CallArch'.val \in DOMAIN INSTALLERS
          /\ CallRelease'.val \in DOMAIN INSTALLERS[CallArch'.val] )
        => /\ result' = "returned"
           /\ frame'.url = INSTALLERS[CallArch'.val][CallRelease'.val]
           /\ log' = <<>>
           /\ (frame'.arg = R2024b /\ frame'.arch = win64)
                  => frame'.url = ModernUrl(R2024b, <<"5">>, win64)
           /\ (frame'.arg = <<"9", ".", "1", "3">> /\ frame'.arch = glnxa64)
                  => frame'.url = ModernUrl(R2022b, <<"1", "0">>, glnxa64) ]_vars

\* C12 witness: guess_installer("9.13", "glnxa64") returned the URL of
\* R2022b, update 10, without a check.
C12_Witness ==
    /\ pc = "done"
    /\ call.fn = "guess_installer"
    /\ frame.arg = <<"9", ".", "1", "3">>
    /\ frame.arch = glnxa64
    /\ frame.url = ModernUrl(R2022b, <<"1", "0">>, glnxa64)
    /\ log = <<>>
    /\ result = "returned"

\* C13: when the catalog has no entry for the arch and the release asked
\* for, guess_installer issues existence checks, the first of them for the
\* update counter 10, and does not fail before it has issued one.  Here for
\* the guess_installer that install calls.
C13_ProbesDescendFromTen ==
    ( /\ pc = "done"
      /\ call.fn = "install"
      /\ call.version.type = "str"
      /\ Requested.exc = ""
      /\ guess_arch(host).exc = ""
      /\ guess_arch(host).val \in DOMAIN INSTALLERS_seed
      /\ Requested.val \notin DOMAIN INSTALLERS_seed[guess_arch(host).val] )
    => /\ result # "KeyError"
       /\ Count("url_exists", log) >= 1

\* C14: a call of guess_installer that follows a call for the same version
\* and arch which returned a URL returns the same URL and issues no
\* existence check.
C14_SecondCallFromCache ==
    ( /\ pc = "done"
      /\ call.fn = "guess_installer"
      /\ last # NoLast
      /\ last.version = frame.arg
      /\ last.arch = frame.arch )
    => /\ result = "returned"
       /\ frame.url = last.url
       /\ log = <<>>

\* C14 witness: the first call found update 7 by probing, the second call
\* returned it without a check.
C14_Witness ==
    /\ pc = "done"
    /\ call.fn = "guess_installer"
    /\ last.version = frame.arg
    /\ last.arch = frame.arch
    /\ last.url.update = <<"7">>
    /\ frame.url = last.url
    /\ log = <<>>

\* The candidate URLs of guess_installer, in the order of the update
\* counters 10, 9, ..., 0
Candidates(R, A) == [i \in 1..11 |-> ModernUrl(R, str(11 - i), A)]

\* C15: the existence checks of a guess_installer call are the candidates
\* for the update counters 10, 9, ... in this order, each at most once and
\* none after one that succeeded; when all eleven have been answered "does
\* not exist" the call raises VersionNotFoundError, whose message names the
\* version asked for and the arch; and it raises it in no other case.
C15_ExhaustedProbesRaise ==
    ( /\ pc = "done"
      /\ call.fn = "guess_installer" )
    => /\ Len(log) <= 11
       /\ \A i \in DOMAIN log :
              /\ log[i].url = Candidates(CallRelease.val, CallArch.val)[i]
              /\ i < Len(log) => log[i].exists = "False"
       /\ (Len(log) = 11 /\ log[11].exists = "False")
              => result = "VersionNotFoundError"
       /\ result = "VersionNotFoundError"
              => /\ Len(log) = 11
                 /\ \A i \in DOMAIN log : log[i].exists = "False"
                 /\ frame.error = <<"No ">> \o frame.arg
                                      \o <<" installer found for Win">>
                                      \o CallArch.val

\* C15 witness: a call probed the eleven candidates in vain and raised.
C15_Witness ==
    /\ pc = "done"
    /\ call.fn = "guess_installer"
    /\ result = "VersionNotFoundError"
    /\ Len(log) = 11
    /\ log[1].url.update = <<"1", "0">>
    /\ log[11].url.update = <<"0">>
    /\ frame.error # <<>>

\* C16: no step removes or changes an entry of the catalog, and a step that
\* ends a lookup with VersionNotFoundError leaves the catalog as it was.
C16_CatalogAppendOnly ==
    [][ /\ \A a \in DOMAIN INSTALLERS :
               /\ a \in DOMAIN INSTALLERS'
               /\ \A R \in DOMAIN INSTALLERS[a] :
                      /\ R \in DOMAIN INSTALLERS'[a]
                      /\ INSTALLERS'[a][R] = INSTALLERS[a][R]
        /\ result' = "VersionNotFoundError" => INSTALLERS' = INSTALLERS ]_vars

\* C16 witness: the catalog holds two cached entries next to the seeded
\* ones, and a lookup after them has failed.
C16_Witness ==
    /\ pc = "done"
    /\ result = "VersionNotFoundError"
    /\ \E a \in DOMAIN INSTALLERS :
           Cardinality(DOMAIN INSTALLERS[a]) >= Cardinality(DOMAIN INSTALLERS_seed[a]) + 2

\* C17: guess_release("latest", arch) looks for the releases of the year
\* with the arch it was given: every existence check it issues is for that
\* arch, and the release it returns is one the catalog then holds for that
\* arch (found for it, or the greatest already known for it).
C17_LatestForRequestedArch ==
    ( /\ pc = "done"
      /\ call.fn = "guess_release"
      /\ frame.arg = latest
      /\ frame.arch # <<>> )
    => /\ \A i \in DOMAIN log : log[i].url.arch = frame.arch
       /\ result = "returned" => frame.version \in DOMAIN INSTALLERS[frame.arch]

\* C18: "latest_installed" resolves to the release of the greatest name
\* under the prefix whose directory holds the license file, when there is
\* one, for guess_release and for init_sdk alike.
C18_LatestInstalled ==
    ( /\ pc = "done"
      /\ call.fn \in {"guess_release", "init_sdk"}
      /\ frame.arg = latest_installed
      /\ host.system # "FreeBSD"
      /\ PREFIX \in fs
      /\ LicensedNames(fs, PREFIX) # {} )
    => /\ result = "returned"
       /\ frame.version = matlab_release(MaxStr(LicensedNames(fs, PREFIX))).val

\* ------------------------------------------------------------------------
\*  Properties of the conversions
\* ------------------------------------------------------------------------

\* C19: for every release R20YYa or R20YYb from R2023b on,
\* matlab_release(matlab_version(R)) is R.
C19_ReleaseRoundTrip ==
    ( /\ pc = "converted_back"
      /\ call.fn = "matlab_version"
      /\ log[1] \in ModernReleases )
    => /\ result = "returned"
       /\ log[3] = log[1]

\* C20: for every key V of VERSION_TO_RELEASE, "9.0.1" and "8.5.1"
\* included, matlab_version(matlab_release(V)) is V.
C20_VersionRoundTrip ==
    /\ ( /\ pc = "converted"
         /\ call.fn = "matlab_release"
         /\ call.version.type = "str"
         /\ DictHas(VERSION_TO_RELEASE, log[1]) )
       => /\ result = "returned"
          /\ log[2] = DictGet(VERSION_TO_RELEASE, log[1])
    /\ ( /\ pc = "converted_back"
         /\ call.fn = "matlab_release"
         /\ DictHas(VERSION_TO_RELEASE, log[1]) )
       => /\ result = "returned"
          /\ log[3] = log[1]

\* C20 witness: "9.0.1" was converted to R2016a and back to "9.0.1".
C20_Witness ==
    /\ pc = "converted_back"
    /\ call.fn = "matlab_release"
    /\ log = << <<"9", ".", "0", ".", "1">>, <<"R", "2", "0", "1", "6", "a">>,
                <<"9", ".", "0", ".", "1">> >>
    /\ result = "returned"

\* C21: matlab_release returns a release string unchanged; converts a
\* version "YY.N" that VERSION_TO_RELEASE lacks to R20YY followed by the
\* N-th letter ("24.1" to R2024a, "24.2" to R2024b); and converts the pair
\* (YY, N) as it converts "YY.N".
C21_ReleaseOfVersion ==
    ( /\ pc = "converted"
      /\ call.fn = "matlab_release" )
    => IF call.version.type = "tuple"
       THEN /\ result = "returned"
            /\ log[2] = <<"R", "2", "0">> \o str(log[1][1]) \o <<Letters[log[1][2]]>>
       ELSE IF Take(log[1], 1) = <<"R">>
       THEN result = "returned" /\ log[2] = log[1]
       ELSE IF DictHas(VERSION_TO_RELEASE, log[1])
       THEN result = "returned"
       ELSE /\ result = "returned"
            /\ log[2] = <<"R", "2", "0">> \o split(log[1])[1]
                            \o <<Letters[int(split(log[1])[2])]>>

\* ------------------------------------------------------------------------
\*  Properties of the downloads
\* ------------------------------------------------------------------------

\* C22: url_download(url, out, retry) makes at most retry attempts and none
\* after one that succeeded; it returns once a transfer succeeded, the file
\* being at the final path; and it raises DownloadError, whose message is
\* the last error, exactly when retry attempts have all failed.
C22_DownloadRetries ==
    call.fn = "url_download"
    => /\ Len(log) <= call.retry
       /\ \A i \in DOMAIN log : i < Len(log) => log[i] # "200"
       /\ (log # <<>> /\ log[Len(log)] = "200")
              => pc = "done" /\ result = "returned" /\ frame.installer \in fs
       /\ pc = "done"
              => \/ result = "returned" /\ log # <<>> /\ log[Len(log)] = "200"
                 \/ /\ result = "DownloadError"
                    /\ Len(log) = call.retry
                    /\ \A i \in DOMAIN log : log[i] # "200"
                    /\ frame.error = IF log = <<>> THEN <<"None">>
                                     ELSE <<log[Len(log)]>>

\* C22 witness: five attempts failed, the last one with URLError, and
\* DownloadError was raised with it.
C22_Witness ==
    /\ pc = "done"
    /\ call.fn = "url_download"
    /\ call.retry = 5
    /\ Len(log) = 5
    /\ log[1] = "HTTPError"
    /\ result = "DownloadError"
    /\ frame.error = <<"URLError">>

\* C23: when the download of the installer fails during install, install
\* ends with DownloadError, and neither an archive is extracted nor the
\* native installer run.
C23_InstallDownloadError ==
    ( /\ pc = "done"
      /\ call.fn = "install"
      /\ "mkdtemp" \in Range(log)
      /\ "download" \notin Range(log) )
    => /\ result = "DownloadError"
       /\ Range(log) \cap {"extract", "installer"} = {}

\* ------------------------------------------------------------------------
\*  Properties of the files
\* ------------------------------------------------------------------------

\* The members that the running extractall has handled
Handled == IF call.fn = "extractall" THEN DOMAIN log ELSE {}

\* The entries at the target path of member i
EntriesAt(i) == {e \in entries : e.path = join(TMPDIR, call.members[i].name)}

\* C24: where symlinks are supported (not on Windows) and the system does
\* not refuse the link, a symlink member that has been handled is a
\* symlink to the stored text at its target path, not a regular file; and
\* the members are handled in the order of the archive.
C24_SymlinkMembers ==
    \A i \in Handled :
        /\ log[i].name = call.members[i].name
        /\ ( /\ call.members[i].link
             /\ host.system # "Windows"
             /\ log[i].symlink = "ok" )
           => EntriesAt(i) = {[path |-> join(TMPDIR, call.members[i].name),
                               kind |-> "link",
                               text |-> call.members[i].data]}

\* C24 witness: an archive of three members was extracted on Linux, the
\* symlink stored second being created after a regular file and before a
\* symlink that the system refused.
C24_Witness ==
    /\ call.fn = "extractall"
    /\ pc = "done"
    /\ host.system = "Linux"
    /\ Len(log) = 3
    /\ ~call.members[1].link
    /\ call.members[2].link /\ log[2].symlink = "ok"
    /\ \E e \in EntriesAt(2) : e.kind = "link"
    /\ log[3].symlink = "OSError"
    /\ \E e \in EntriesAt(3) : e.kind = "file"

\* C26: once a symlink member has been handled, the destination holds its
\* target path and no '<target>.__backup__' next to it.
C26_NoBackupLeft ==
    \A i \in Handled :
        call.members[i].link
        => /\ join(TMPDIR, call.members[i].name) \in fs
           /\ join(TMPDIR, call.members[i].name \o <<".__backup__">>) \notin fs

\* C29: when patch_libcrypto has moved the library aside and ends, the
\* file at the library's path is the replacement of the bottle if it
\* returned, and the library as it was when the call started if it raised.
C29_LibcryptoAllOrNothing ==
    (call.fn = "patch_libcrypto" /\ pc = "done" /\ log # <<>>)
    => /\ libcrypto_path(host, <<>>) \in fs
       /\ {e.text : e \in {x \in entries : x.path = libcrypto_path(host, <<>>)}}
              = IF result = "returned" THEN {"homebrew"} ELSE call.original

\* C29 witness: moving the replacement into place failed halfway, and the
\* library shipped by MathWorks is at its path.
C29_Witness ==
    /\ call.fn = "patch_libcrypto"
    /\ pc = "done"
    /\ log = <<"move", "download_bottle", "extractall", "move">>
    /\ result = "OSError"
    /\ call.original = {"MathWorks"}
    /\ [path |-> libcrypto_path(host, <<>>), kind |-> "file", text |-> "MathWorks"]
           \in entries

\* ------------------------------------------------------------------------
\*  Properties of the host and of the catalog
\* ------------------------------------------------------------------------

\* C25: guess_prefix returns the value of MATLAB_RUNTIME_PATH when it is
\* set (to a value that is not empty), and when it is not set returns the
\* default of the platform on a Windows, Linux or macOS host.
C25_GuessPrefix ==
    (call.fn = "guess_prefix" /\ pc = "converted")
    => /\ (call.environ.set /\ call.environ.value # <<>>)
              => result = "returned" /\ log[1] = call.environ.value
       /\ (~call.environ.set /\ host.system \in {"Windows", "Linux", "Darwin"})
              => /\ result = "returned"
                 /\ log[1] = IF host.system = "Linux"
                             THEN <<"/usr/local/MATLAB/MATLAB_Runtime">>
                             ELSE IF host.system = "Darwin"
                             THEN <<"/Applications/MATLAB/MATLAB_Runtime">>
                             ELSE <<"C:\\Program Files\\MATLAB\\MATLAB Runtime\\">>

\* C27: as long as no call has added to it, every entry INSTALLERS[A][R]
\* of the catalog, which is then the seeded one, is a URL of
\* release R and arch A, from the template with the update of
\* RELEASE_TO_UPDATE[R] when R is R2019a or later and from the template
\* without update when R is earlier.
C27_SeedSelfConsistent ==
    \A A \in DOMAIN INSTALLERS :
        \A R \in DOMAIN INSTALLERS[A] :
            /\ INSTALLERS[A][R].release = R
            /\ INSTALLERS[A][R].arch = A
            /\ IF StrLess(R, <<"R", "2", "0", "1", "9", "a">>)
               THEN INSTALLERS[A][R].template = 1
               ELSE /\ INSTALLERS[A][R].template = 2
                    /\ INSTALLERS[A][R].update = DictGet(RELEASE_TO_UPDATE, R)

\* C28: on a Windows, Linux or macOS host guess_arch returns a key of the
\* catalog, and on any other host it raises UnsupportedArchError.
C28_GuessArchIsCatalogKey ==
    (call.fn = "guess_arch" /\ pc = "converted")
    => IF host.system \in {"Windows", "Linux", "Darwin"}
       THEN result = "returned" /\ log[1] \in DOMAIN INSTALLERS
       ELSE result = "UnsupportedArchError"

====
